---- MODULE Spec2Model ----
(***************************************************************************)
(* Model of the coalfield truck simulation engine:                         *)
(*   src/services/SimulationEngine.ts  (SimulationEngine)                  *)
(*   src/services/pathfinding.ts       (findPath, reconstructPath)         *)
(*   src/unnamed/part_001              (geometry: distance,                *)
(*                                      distanceToSegment, findNearestEdge)*)
(*   src/unnamed/part_000              (App: the handlers that call the    *)
(*                                      engine, DEFAULT_MAP)               *)
(*                                                                         *)
(* Numbers.  The engine computes with IEEE doubles; the model uses         *)
(* integers.  Times that the planner compares (currentWeight, gScore,      *)
(* fScore, the heuristic) are kept in units of 1/WScale second, so that    *)
(* T0*(1+alpha*(n/C)^beta) and distance/baseSpeed are integers for the     *)
(* capacities, speeds and coordinates the maps below use.  Scaling every   *)
(* compared quantity by the same factor keeps all comparisons.             *)
(***************************************************************************)
EXTENDS Integers, Sequences, FiniteSets, TLC

VARIABLES nodes, edges, routers, trucks, time, config, nextTruckId,
          completedTrips, totalTripTime, totalTripDistance,
          baseTripTimeAccumulator, readings, answer, call

vars == <<nodes, edges, routers, trucks, time, config, nextTruckId,
          completedTrips, totalTripTime, totalTripDistance,
          baseTripTimeAccumulator, readings, answer, call>>

engineVars == <<nodes, edges, routers, trucks, time, config, nextTruckId,
                completedTrips, totalTripTime, totalTripDistance,
                baseTripTimeAccumulator>>

\* null / undefined of the source
NULL == "null"

\* unit of the planner's times: one second is WScale units
WScale == 100

\* the two doubles that are not finite; no finite weight is negative
NaN == -1

PosInfinity == -2

IsFinite(w) == w # NaN /\ w # PosInfinity

(***************************************************************************)
(* Bounds of the model                                                     *)
(***************************************************************************)
MaxTime == 5
MaxTrucks == 2
MaxW == 2
MaxReads == 6
MaxQueueTrucks == 7
MaxQueueTime == 3
MaxTripTime == 13
MaxOpsTime == 2
MaxOpsTrucks == 2
MaxOpsLoad == 1
MaxEditTime == 3
MaxEditTrucks == 1
MaxT0 == 3
MaxLoad == 4
MaxAlpha == 2
MaxBeta == 2
MaxCongTime == 1
MaxFailTime == 4
MaxFailTrucks == 2
MaxCadenceTime == 8
MaxDt == 2
MaxInterval == 3
MaxOrderTime == 3
MaxOrderTrucks == 3
MaxLoadsTime == 4
MaxLoadsTrucks == 2
MaxLiveTime == 8
MaxLiveTrucks == 4

(***************************************************************************)
(* Arithmetic helpers                                                      *)
(***************************************************************************)
Min(a, b) == IF a < b THEN a ELSE b

Max(a, b) == IF a > b THEN a ELSE b

RECURSIVE Pow(_, _)
\* Math.pow for natural base and exponent
Pow(b, e) == IF e = 0 THEN 1 ELSE b * Pow(b, e - 1)

\* Math.sqrt on the perfect squares the maps produce
Sqrt(n) == CHOOSE r \in 0..n : r * r <= n /\ (r + 1) * (r + 1) > n

\* geometry.distance
distance(p1, p2) == Sqrt(Pow(p2.x - p1.x, 2) + Pow(p2.y - p1.y, 2))

\* geometry.getPointOnSegment, kept symbolically: the point at ratio num/den
\* of the segment from node a to node b
getPointOnSegment(a, b, num, den) == [a |-> a, b |-> b, num |-> num, den |-> den]

(***************************************************************************)
(* Array helpers                                                           *)
(***************************************************************************)
\* Array.prototype.find by id: index of the first edge with that id, 0 if none
FindEdge(es, id) ==
  IF \E i \in 1..Len(es) : es[i].id = id
  THEN CHOOSE i \in 1..Len(es) : es[i].id = id /\ \A j \in 1..(i - 1) : es[j].id # id
  ELSE 0

\* index of x in sequence s, 0 if absent
IndexOf(s, x) ==
  IF \E i \in 1..Len(s) : s[i] = x
  THEN CHOOSE i \in 1..Len(s) : s[i] = x /\ \A j \in 1..(i - 1) : s[j] # x
  ELSE 0

\* Set.delete on an insertion-ordered Set
SetDelete(s, x) == SelectSeq(s, LAMBDA y : y # x)

\* Set.add on an insertion-ordered Set
SetAdd(s, x) == IF IndexOf(s, x) # 0 THEN s ELSE Append(s, x)

(***************************************************************************)
(* pathfinding.ts                                                          *)
(***************************************************************************)
\* the null result of findPath; a result that is not null has found = TRUE
NoPath == [found |-> FALSE, path |-> <<>>, eta |-> 0]

RECURSIVE reconstructWalk(_, _, _, _, _)
reconstructWalk(cameFrom, curr, es, totalPath, totalTime) ==
  IF curr \in DOMAIN cameFrom
  THEN LET prev == cameFrom[curr]
           k == FindEdge(es, prev.edgeId)
       IN reconstructWalk(cameFrom, prev.nodeId, es,
                          <<prev.edgeId>> \o totalPath,
                          IF k # 0 THEN totalTime + es[k].currentWeight ELSE totalTime)
  ELSE [found |-> TRUE, path |-> totalPath, eta |-> totalTime]

\* slip: the loop stops before it adds the weight of the first edge
reconstructPath_SkipsFirst(cameFrom, current, es) ==
  LET r == reconstructWalk(cameFrom, current, es, <<>>, 0)
  IN IF r.path = <<>> THEN r
     ELSE [r EXCEPT !.eta = @ - es[FindEdge(es, r.path[1])].currentWeight]

\* slip: the edge that leaves the start node is not put on the path
reconstructPath_LosesFirstEdge(cameFrom, current, es) ==
  LET r == reconstructWalk(cameFrom, current, es, <<>>, 0)
  IN IF r.path = <<>> THEN r ELSE [r EXCEPT !.path = Tail(@)]

reconstructPath(cameFrom, current, es) ==
  reconstructWalk(cameFrom, current, es, <<>>, 0)

\* the node of openSet with the lowest fScore; the strict comparison keeps the
\* first such node in insertion order
LowestF(openSet, fScore) ==
  LET i == CHOOSE i \in 1..Len(openSet) :
             /\ \A j \in 1..Len(openSet) : fScore[openSet[i]] <= fScore[openSet[j]]
             /\ \A j \in 1..(i - 1) : fScore[openSet[j]] > fScore[openSet[i]]
  IN openSet[i]

\* slip: the filter forgets the closed flag
Neighbors_IgnoreClosed(es, current) ==
  SelectSeq(es, LAMBDA e : e.sourceId = current)

\* slip: the filter takes the edges that arrive at the node
Neighbors_Incoming(es, current) ==
  SelectSeq(es, LAMBDA e : e.targetId = current /\ ~e.isClosed)

\* the neighbours of a node: non-closed edges leaving it, in array order
Neighbors(es, current) ==
  SelectSeq(es, LAMBDA e : e.sourceId = current /\ ~e.isClosed)

\* heuristic of a neighbour reached over edge e, in 1/WScale seconds
Heuristic(ns, neighbor, endNodeId, e) ==
  IF neighbor \in DOMAIN ns
  THEN (distance(ns[neighbor], ns[endNodeId]) * WScale) \div e.baseSpeed
  ELSE 0

\* one iteration of "for (const edge of neighbors)"; a sum with a weight that
\* is NaN or Infinity is never less than a gScore or than the default Infinity
Relax(st, e, current, endNodeId, ns) ==
  LET neighbor == e.targetId
      tentativeGScore == st.gScore[current] + e.currentWeight
  IN IF /\ IsFinite(e.currentWeight)
        /\ (neighbor \notin DOMAIN st.gScore \/ tentativeGScore < st.gScore[neighbor])
     THEN [openSet |-> SetAdd(st.openSet, neighbor),
           cameFrom |-> (neighbor :> [edgeId |-> e.id, nodeId |-> current]) @@ st.cameFrom,
           gScore |-> (neighbor :> tentativeGScore) @@ st.gScore,
           fScore |-> (neighbor :> tentativeGScore + Heuristic(ns, neighbor, endNodeId, e))
                        @@ st.fScore]
     ELSE st

RECURSIVE RelaxAll(_, _, _, _, _)
RelaxAll(st, nbrs, current, endNodeId, ns) ==
  IF nbrs = <<>> THEN st
  ELSE RelaxAll(Relax(st, Head(nbrs), current, endNodeId, ns), Tail(nbrs),
                current, endNodeId, ns)

RECURSIVE AStarLoop(_, _, _, _)
\* the while (openSet.size > 0) loop
AStarLoop(st, endNodeId, ns, es) ==
  IF Len(st.openSet) = 0 THEN NoPath
  ELSE LET current == LowestF(st.openSet, st.fScore)
       IN IF current = endNodeId
          THEN reconstructPath(st.cameFrom, current, es)
          ELSE AStarLoop(RelaxAll([st EXCEPT !.openSet = SetDelete(st.openSet, current)],
                                  Neighbors(es, current), current, endNodeId, ns),
                         endNodeId, ns, es)

\* export const findPath
findPath(startNodeId, endNodeId, ns, es) ==
  IF startNodeId \notin DOMAIN ns \/ endNodeId \notin DOMAIN ns THEN NoPath
  ELSE AStarLoop([openSet |-> <<startNodeId>>,
                  cameFrom |-> <<>>,
                  gScore |-> (startNodeId :> 0),
                  fScore |-> (startNodeId :> distance(ns[startNodeId], ns[endNodeId]) * WScale)],
                 endNodeId, ns, es)

(***************************************************************************)
(* SimulationEngine.ts                                                     *)
(***************************************************************************)
\* Math.random() * (truckSpeedMax - truckSpeedMin) + truckSpeedMin: the
\* integer samples of the half-open range
SpeedRange(cfg) ==
  IF cfg.truckSpeedMax <= cfg.truckSpeedMin THEN {cfg.truckSpeedMin}
  ELSE cfg.truckSpeedMin..(cfg.truckSpeedMax - 1)

\* the Truck literal of spawnTruck; the id T-<n> is kept as the number n
NewTruck(n, startNodeId, endNodeId, firstEdgeId, path, speed) ==
  [id |-> n,
   position |-> getPointOnSegment(startNodeId, startNodeId, 0, 1),
   currentEdgeId |-> firstEdgeId,
   distanceAlongEdge |-> 0,
   speed |-> speed,
   state |-> "moving",
   routePlan |-> path,
   destinationNodeId |-> endNodeId,
   inferredRouterId |-> NULL,
   inferredEdgeId |-> NULL,
   lastRouterSwitchTime |-> 0,
   consecutiveRouterReads |-> 0,
   potentialRouterId |-> NULL,
   totalDistance |-> 0,
   totalTime |-> 0,
   rerouteCount |-> 0]

\* the route spawnTruck creates the truck with; NoPath when it returns early
SpawnRoute(startNodeId, endNodeId) ==
  IF startNodeId \notin DOMAIN nodes THEN NoPath
  ELSE LET routeResult == findPath(startNodeId, endNodeId, nodes, edges)
       IN IF ~routeResult.found \/ Len(routeResult.path) = 0 THEN NoPath
          ELSE IF FindEdge(edges, routeResult.path[1]) = 0 THEN NoPath
          ELSE routeResult

\* slip: the id is taken from the counter before the route is known
spawnTruck_TakesIdFirst(startNodeId, endNodeId) ==
  LET routeResult == SpawnRoute(startNodeId, endNodeId)
  IN IF ~routeResult.found
     THEN /\ nextTruckId' = nextTruckId + 1
          /\ UNCHANGED <<nodes, edges, routers, trucks, time, config, completedTrips,
                         totalTripTime, totalTripDistance, baseTripTimeAccumulator>>
     ELSE LET k == FindEdge(edges, routeResult.path[1])
          IN \E speed \in SpeedRange(config) :
               /\ trucks' = Append(trucks, NewTruck(nextTruckId, startNodeId, endNodeId,
                                                    edges[k].id, routeResult.path, speed))
               /\ nextTruckId' = nextTruckId + 1
               /\ edges' = [edges EXCEPT ![k].currentLoad = @ + 1]
               /\ UNCHANGED <<nodes, routers, time, config, completedTrips, totalTripTime,
                              totalTripDistance, baseTripTimeAccumulator>>

\* spawnTruck(startNodeId, endNodeId)
spawnTruck(startNodeId, endNodeId) ==
  LET routeResult == SpawnRoute(startNodeId, endNodeId)
  IN IF ~routeResult.found
     THEN UNCHANGED engineVars
     ELSE LET k == FindEdge(edges, routeResult.path[1])
          IN \E speed \in SpeedRange(config) :
               /\ trucks' = Append(trucks, NewTruck(nextTruckId, startNodeId, endNodeId,
                                                    edges[k].id, routeResult.path, speed))
               /\ nextTruckId' = nextTruckId + 1
               /\ edges' = [edges EXCEPT ![k].currentLoad = @ + 1]
               /\ UNCHANGED <<nodes, routers, time, config, completedTrips, totalTripTime,
                              totalTripDistance, baseTripTimeAccumulator>>

\* the value the call spawnTruck(startNodeId, endNodeId) returns: the early
\* returns are bare "return;" statements and the body ends without a return
spawnTruckReturn(startNodeId, endNodeId) ==
  IF ~SpawnRoute(startNodeId, endNodeId).found THEN "undefined" ELSE "undefined"

(* ---- tick, phase 1: move trucks ---- *)

\* the part of the engine the motion phase reads and writes
MotionState == [edges |-> edges, trucks |-> trucks, completedTrips |-> completedTrips,
                totalTripTime |-> totalTripTime, totalTripDistance |-> totalTripDistance]

\* the truck's position after the move, recomputed only when both end nodes exist
MovedPosition(t, e, d) ==
  IF e.sourceId \in DOMAIN nodes /\ e.targetId \in DOMAIN nodes
  THEN getPointOnSegment(e.sourceId, e.targetId, Min(d, e.length), e.length)
  ELSE t.position

\* slip: an edge counts as completed only once the truck is past its end
EdgeCompleted_Strict(d, length) == d > length

\* "Check for edge completion"
EdgeCompleted(d, length) == d >= length

\* slip: the closed flag of the next edge is not looked at
CanEnter_IgnoresClosure(es, ne) == ne # 0

\* "if (nextEdge && (!nextEdge.isClosed || this.config.policy === 'queue'))";
\* ne is the index of the next edge in es, 0 if there is no such edge
CanEnter(es, ne) == ne # 0 /\ (~es[ne].isClosed \/ config.policy = "queue")

\* slip: the distance travelled beyond the end of the edge is carried over
ProgressAfterEdge_CarriesOver(d, length) == d - length

\* "truck.distanceAlongEdge = 0; // Reset for next edge (simplified, ignoring
\* overflow)": the progress of a truck that has completed an edge of that
\* length with distance d
ProgressAfterEdge(d, length) == 0

\* slip: the load of the edge a truck leaves is not taken back
LeaveEdge_KeepsLoad(es, ce) == es

\* "Exit current edge": currentEdge.currentLoad = Math.max(0, currentLoad - 1)
LeaveEdge(es, ce) == [es EXCEPT ![ce].currentLoad = Max(0, @ - 1)]

\* body of this.trucks.forEach(truck => { ... }) of phase 1, for truck i
MoveTruck(ms, i) ==
  LET t == ms.trucks[i]
      ce == FindEdge(ms.edges, t.currentEdgeId)
  IN IF t.state # "moving" THEN ms
     ELSE IF ce = 0 THEN [ms EXCEPT !.trucks[i].state = "idle"]
     ELSE
       LET currentEdge == ms.edges[ce]
           moveDist == t.speed * config.dt
           d == t.distanceAlongEdge + moveDist
           moved == [t EXCEPT !.distanceAlongEdge = d,
                              !.totalDistance = @ + moveDist,
                              !.totalTime = @ + config.dt,
                              !.position = MovedPosition(t, currentEdge, d)]
       IN IF ~EdgeCompleted(d, currentEdge.length) THEN [ms EXCEPT !.trucks[i] = moved]
          ELSE
            LET es1 == LeaveEdge(ms.edges, ce)
                plan == IF moved.routePlan # <<>> /\ moved.routePlan[1] = moved.currentEdgeId
                        THEN Tail(moved.routePlan) ELSE moved.routePlan
                left == [moved EXCEPT !.distanceAlongEdge = ProgressAfterEdge(d, currentEdge.length),
                                      !.routePlan = plan]
            IN IF Len(plan) = 0
               THEN [ms EXCEPT !.edges = es1,
                               !.trucks[i] = [left EXCEPT !.state = "finished",
                                                          !.currentEdgeId = NULL],
                               !.completedTrips = @ + 1,
                               !.totalTripTime = @ + left.totalTime,
                               !.totalTripDistance = @ + left.totalDistance]
               ELSE
                 LET ne == FindEdge(es1, plan[1])
                 IN IF CanEnter(es1, ne)
                    THEN [ms EXCEPT !.edges = [es1 EXCEPT ![ne].currentLoad = @ + 1],
                                    !.trucks[i] = [left EXCEPT !.currentEdgeId = es1[ne].id]]
                    ELSE [ms EXCEPT !.edges = es1,
                                    !.trucks[i] = [left EXCEPT !.state = "waiting"]]

RECURSIVE MoveFrom(_, _)
\* forEach over the trucks in array order, from index i on
MoveFrom(ms, i) ==
  IF i > Len(ms.trucks) THEN ms ELSE MoveFrom(MoveTruck(ms, i), i + 1)

MoveTrucks(ms) == MoveFrom(ms, 1)

\* slip: the finished trucks are never removed
PruneFinished_KeepsAll(ts) == ts

\* slip: the idle trucks are removed with the finished ones
PruneFinished_DropsIdle(ts) == SelectSeq(ts, LAMBDA t : t.state \notin {"finished", "idle"})

\* this.trucks = this.trucks.filter(t => t.state !== 'finished')
PruneFinished(ts) == SelectSeq(ts, LAMBDA t : t.state # "finished")

(* ---- tick, phase 2: localization ---- *)

\* ids a noisy reading can return: with routerNoiseSigma > 0 any router can
\* have the minimal noisy distance; without routers nearestRouterId stays null
Candidates == IF Len(routers) = 0 THEN {NULL} ELSE {routers[i].id : i \in 1..Len(routers)}

\* the first mapped edge of the router with that id, NULL if it maps none
FirstMappedEdge(rid, old) ==
  LET ks == {i \in 1..Len(routers) : routers[i].id = rid}
  IN IF ks = {} THEN old
     ELSE LET k == CHOOSE i \in ks : \A j \in ks : i <= j
          IN IF Len(routers[k].mappedEdgeIds) > 0 THEN routers[k].mappedEdgeIds[1] ELSE old

\* slip: a new candidate does not restart the count
Hysteresis_NoReset(t, nearestRouterId, now) ==
  IF nearestRouterId = NULL THEN t
  ELSE IF nearestRouterId # t.inferredRouterId
  THEN LET t1 == IF nearestRouterId = t.potentialRouterId
                 THEN [t EXCEPT !.consecutiveRouterReads = @ + 1]
                 ELSE [t EXCEPT !.potentialRouterId = nearestRouterId,
                                !.consecutiveRouterReads = @ + 1]
       IN IF t1.consecutiveRouterReads >= config.hysteresisN
          THEN [t1 EXCEPT !.inferredRouterId = nearestRouterId,
                          !.lastRouterSwitchTime = now,
                          !.inferredEdgeId = FirstMappedEdge(nearestRouterId, t1.inferredEdgeId)]
          ELSE t1
  ELSE [t EXCEPT !.consecutiveRouterReads = 0, !.potentialRouterId = NULL]

\* slip: the count has to exceed the threshold
Hysteresis_StrictThreshold(t, nearestRouterId, now) ==
  IF nearestRouterId = NULL THEN t
  ELSE IF nearestRouterId # t.inferredRouterId
  THEN LET t1 == IF nearestRouterId = t.potentialRouterId
                 THEN [t EXCEPT !.consecutiveRouterReads = @ + 1]
                 ELSE [t EXCEPT !.potentialRouterId = nearestRouterId,
                                !.consecutiveRouterReads = 1]
       IN IF t1.consecutiveRouterReads > config.hysteresisN
          THEN [t1 EXCEPT !.inferredRouterId = nearestRouterId,
                          !.lastRouterSwitchTime = now,
                          !.inferredEdgeId = FirstMappedEdge(nearestRouterId, t1.inferredEdgeId)]
          ELSE t1
  ELSE [t EXCEPT !.consecutiveRouterReads = 0, !.potentialRouterId = NULL]

\* slip: the commit clears the count
Hysteresis_ResetsAtCommit(t, nearestRouterId, now) ==
  IF nearestRouterId = NULL THEN t
  ELSE IF nearestRouterId # t.inferredRouterId
  THEN LET t1 == IF nearestRouterId = t.potentialRouterId
                 THEN [t EXCEPT !.consecutiveRouterReads = @ + 1]
                 ELSE [t EXCEPT !.potentialRouterId = nearestRouterId,
                                !.consecutiveRouterReads = 1]
       IN IF t1.consecutiveRouterReads >= config.hysteresisN
          THEN [t1 EXCEPT !.inferredRouterId = nearestRouterId,
                          !.lastRouterSwitchTime = now,
                          !.inferredEdgeId = FirstMappedEdge(nearestRouterId, t1.inferredEdgeId),
                          !.consecutiveRouterReads = 0]
          ELSE t1
  ELSE [t EXCEPT !.consecutiveRouterReads = 0, !.potentialRouterId = NULL]

\* slip: a new candidate is committed at once, whatever the threshold
Hysteresis_CommitsNewCandidate(t, nearestRouterId, now) ==
  IF nearestRouterId = NULL THEN t
  ELSE IF nearestRouterId # t.inferredRouterId
  THEN LET t1 == IF nearestRouterId = t.potentialRouterId
                 THEN [t EXCEPT !.consecutiveRouterReads = @ + 1]
                 ELSE [t EXCEPT !.potentialRouterId = nearestRouterId,
                                !.consecutiveRouterReads = 1]
       IN IF t1.consecutiveRouterReads >= config.hysteresisN
             \/ nearestRouterId # t.potentialRouterId
          THEN [t1 EXCEPT !.inferredRouterId = nearestRouterId,
                          !.lastRouterSwitchTime = now,
                          !.inferredEdgeId = FirstMappedEdge(nearestRouterId, t1.inferredEdgeId)]
          ELSE t1
  ELSE [t EXCEPT !.consecutiveRouterReads = 0, !.potentialRouterId = NULL]

\* slip: a reading of the inferred beacon drops the candidate but not the count
Hysteresis_KeepsCountOnReturn(t, nearestRouterId, now) ==
  IF nearestRouterId = NULL THEN t
  ELSE IF nearestRouterId # t.inferredRouterId
  THEN LET t1 == IF nearestRouterId = t.potentialRouterId
                 THEN [t EXCEPT !.consecutiveRouterReads = @ + 1]
                 ELSE [t EXCEPT !.potentialRouterId = nearestRouterId,
                                !.consecutiveRouterReads = 1]
       IN IF t1.consecutiveRouterReads >= config.hysteresisN
          THEN [t1 EXCEPT !.inferredRouterId = nearestRouterId,
                          !.lastRouterSwitchTime = now,
                          !.inferredEdgeId = FirstMappedEdge(nearestRouterId, t1.inferredEdgeId)]
          ELSE t1
  ELSE [t EXCEPT !.potentialRouterId = NULL]

\* the "Hysteresis" block for one truck and its reading nearestRouterId at time now
Hysteresis(t, nearestRouterId, now) ==
  IF nearestRouterId = NULL THEN t
  ELSE IF nearestRouterId # t.inferredRouterId
  THEN LET t1 == IF nearestRouterId = t.potentialRouterId
                 THEN [t EXCEPT !.consecutiveRouterReads = @ + 1]
                 ELSE [t EXCEPT !.potentialRouterId = nearestRouterId,
                                !.consecutiveRouterReads = 1]
       IN IF t1.consecutiveRouterReads >= config.hysteresisN
          THEN [t1 EXCEPT !.inferredRouterId = nearestRouterId,
                          !.lastRouterSwitchTime = now,
                          !.inferredEdgeId = FirstMappedEdge(nearestRouterId, t1.inferredEdgeId)]
          ELSE t1
  ELSE [t EXCEPT !.consecutiveRouterReads = 0, !.potentialRouterId = NULL]

\* phase 2 over all trucks; cand[i] is the reading of truck i
Localize(ts, cand, now) ==
  [i \in 1..Len(ts) |-> IF ts[i].state = "finished" THEN ts[i]
                        ELSE Hysteresis(ts[i], cand[i], now)]

(* ---- tick, phase 3: congestion model ---- *)

\* slip: the congestion term is subtracted
CongestionWeight_MinusSign(n, C, T0) ==
  T0 * (WScale - (config.alpha * Pow(n, config.beta) * WScale) \div Pow(C, config.beta))

\* slip: the weight stays the free-flow time
CongestionWeight_IgnoresLoad(n, C, T0) == T0 * WScale

\* T0 * (1 + alpha * (n / C)^beta), in 1/WScale seconds.  With C = 0 the
\* quotient n / C is NaN (n = 0) or Infinity (n > 0); Math.pow(x, 0) is 1 for
\* every x, and 0 * Infinity is NaN
CongestionWeight(n, C, T0) ==
  IF C # 0
  THEN T0 * (WScale + (config.alpha * Pow(n, config.beta) * WScale) \div Pow(C, config.beta))
  ELSE IF config.beta = 0 THEN T0 * (WScale + config.alpha * WScale)
  ELSE IF n = 0 \/ config.alpha = 0 \/ T0 = 0 THEN NaN
  ELSE PosInfinity

UpdateWeights(es) ==
  [i \in 1..Len(es) |->
     [es[i] EXCEPT !.currentWeight = CongestionWeight(es[i].currentLoad, es[i].capacity,
                                                      es[i].baseTravelTime)]]

(* ---- tick, phase 4: periodic rerouting ---- *)

\* slip: the re-plan phase runs only when the time is a multiple of the interval
RerouteDue_AtMultiplesOnly(now) == (now % config.rerouteInterval) = 0

\* this.time % this.config.rerouteInterval < dt
RerouteDue(now) == (now % config.rerouteInterval) < config.dt

\* slip: the new path is computed but never stored
RerouteTruck_KeepsPlan(t, es) == t

\* slip: the counter grows only when the plan changes
RerouteTruck_CountsChangesOnly(t, es) ==
  IF t.state # "moving" \/ t.destinationNodeId = NULL \/ t.currentEdgeId = NULL THEN t
  ELSE LET ce == FindEdge(es, t.currentEdgeId)
       IN IF ce = 0 THEN t
          ELSE LET result == findPath(es[ce].targetId, t.destinationNodeId, nodes, es)
                   plan == <<t.currentEdgeId>> \o result.path
               IN IF result.found /\ plan # t.routePlan
                  THEN [t EXCEPT !.routePlan = plan, !.rerouteCount = @ + 1]
                  ELSE t

\* slip: a truck for which no path is found loses the rest of its plan
RerouteTruck_DropsPlanOnFailure(t, es) ==
  IF t.state # "moving" \/ t.destinationNodeId = NULL \/ t.currentEdgeId = NULL THEN t
  ELSE LET ce == FindEdge(es, t.currentEdgeId)
       IN IF ce = 0 THEN t
          ELSE LET result == findPath(es[ce].targetId, t.destinationNodeId, nodes, es)
               IN IF result.found
                  THEN [t EXCEPT !.routePlan = <<t.currentEdgeId>> \o result.path,
                                 !.rerouteCount = @ + 1]
                  ELSE [t EXCEPT !.routePlan = <<t.currentEdgeId>>]

\* slip: the new plan starts behind the current edge
RerouteTruck_OmitsCurrentEdge(t, es) ==
  IF t.state # "moving" \/ t.destinationNodeId = NULL \/ t.currentEdgeId = NULL THEN t
  ELSE LET ce == FindEdge(es, t.currentEdgeId)
       IN IF ce = 0 THEN t
          ELSE LET result == findPath(es[ce].targetId, t.destinationNodeId, nodes, es)
               IN IF result.found
                  THEN [t EXCEPT !.routePlan = result.path, !.rerouteCount = @ + 1]
                  ELSE t

\* body of the forEach of phase 4 for one truck
RerouteTruck(t, es) ==
  IF t.state # "moving" \/ t.destinationNodeId = NULL \/ t.currentEdgeId = NULL THEN t
  ELSE LET ce == FindEdge(es, t.currentEdgeId)
       IN IF ce = 0 THEN t
          ELSE LET result == findPath(es[ce].targetId, t.destinationNodeId, nodes, es)
               IN IF result.found
                  THEN [t EXCEPT !.routePlan = <<t.currentEdgeId>> \o result.path,
                                 !.rerouteCount = @ + 1]
                  ELSE t

\* slip: the loop ends at the first truck for which no path is found
Reroute_StopsAtFailure(ts, es, now) ==
  LET failed(j) == /\ ts[j].state = "moving"
                   /\ FindEdge(es, ts[j].currentEdgeId) # 0
                   /\ RerouteTruck(ts[j], es) = ts[j]
  IN IF RerouteDue(now)
     THEN [i \in 1..Len(ts) |-> IF \E j \in 1..(i - 1) : failed(j) THEN ts[i]
                                ELSE RerouteTruck(ts[i], es)]
     ELSE ts

Reroute(ts, es, now) ==
  IF RerouteDue(now) THEN [i \in 1..Len(ts) |-> RerouteTruck(ts[i], es)] ELSE ts

(* ---- tick ---- *)

\* the readings log of the trucks that are still active, extended by cand
LogReadings(ts, cand) ==
  [id \in {ts[i].id : i \in 1..Len(ts)} |->
     LET i == CHOOSE i \in 1..Len(ts) : ts[i].id = id
     IN (IF id \in DOMAIN readings THEN readings[id] ELSE <<>>) \o <<cand[i]>>]

\* slip: the weights are computed before the trucks are moved
tick_WeightsBeforeMotion(log, horizon) ==
  /\ time < horizon
  /\ LET now == time + config.dt
         stale == UpdateWeights(edges)
         ms == MoveTrucks(MotionState)
         kept == PruneFinished(ms.trucks)
         es == [k \in 1..Len(ms.edges) |->
                  [ms.edges[k] EXCEPT !.currentWeight = stale[k].currentWeight]]
     IN \E cand \in [1..Len(kept) -> Candidates] :
          /\ time' = now
          /\ edges' = es
          /\ trucks' = Reroute(Localize(kept, cand, now), es, now)
          /\ completedTrips' = ms.completedTrips
          /\ totalTripTime' = ms.totalTripTime
          /\ totalTripDistance' = ms.totalTripDistance
          /\ readings' = IF log THEN LogReadings(kept, cand) ELSE readings
  /\ UNCHANGED <<nodes, routers, config, nextTruckId, baseTripTimeAccumulator, answer>>

\* tick(); log says whether the readings of this tick are recorded, horizon
\* is the time after which the model stops ticking
tick(log, horizon) ==
  /\ time < horizon
  /\ LET now == time + config.dt
         ms == MoveTrucks(MotionState)
         kept == PruneFinished(ms.trucks)
         es == UpdateWeights(ms.edges)
     IN \E cand \in [1..Len(kept) -> Candidates] :
          /\ time' = now
          /\ edges' = es
          /\ trucks' = Reroute(Localize(kept, cand, now), es, now)
          /\ completedTrips' = ms.completedTrips
          /\ totalTripTime' = ms.totalTripTime
          /\ totalTripDistance' = ms.totalTripDistance
          /\ readings' = IF log THEN LogReadings(kept, cand) ELSE readings
  /\ UNCHANGED <<nodes, routers, config, nextTruckId, baseTripTimeAccumulator, answer>>

\* getStats(); the quotients avgTravelTime and avgDelay are kept as
\* <<numerator, denominator>>
getStats ==
  LET speedSum == config.truckSpeedMax + config.truckSpeedMin
      totalDelay == IF completedTrips > 0
                    THEN totalTripTime * speedSum - 2 * totalTripDistance ELSE 0
  IN [time |-> time,
      activeTrucks |-> Len(trucks),
      completedTrips |-> completedTrips,
      avgTravelTime |-> IF completedTrips > 0 THEN <<totalTripTime, completedTrips>>
                        ELSE <<0, 1>>,
      totalDistance |-> totalTripDistance,
      avgDelay |-> <<Max(0, totalDelay), speedSum>>]

(* ---- geometry: the nearest edge of a point ---- *)

\* squared distance of two points
Dist2(p1, p2) == Pow(p2.x - p1.x, 2) + Pow(p2.y - p1.y, 2)

\* a < b for fractions <<numerator, denominator>> with positive denominators
FracLess(a, b) == a[1] * b[2] < b[1] * a[2]

\* geometry.distanceToSegment, as the square of the distance and as a fraction:
\* t = dot / l2 is clamped to [0, 1] and the distance is taken to the projection
distanceToSegment(p, v, w) ==
  LET l2 == Dist2(v, w)
      dot == (p.x - v.x) * (w.x - v.x) + (p.y - v.y) * (w.y - v.y)
  IN IF l2 = 0 THEN <<Dist2(p, v), 1>>
     ELSE IF dot <= 0 THEN <<Dist2(p, v), 1>>
     ELSE IF dot >= l2 THEN <<Dist2(p, w), 1>>
     ELSE <<Dist2(p, v) * l2 - dot * dot, l2>>

\* geometry.findNearestEdge: the id of the first edge at minimal distance among
\* the edges whose end nodes both exist, NULL when there is none
findNearestEdge(point, es, ns) ==
  LET K == {k \in 1..Len(es) : es[k].sourceId \in DOMAIN ns /\ es[k].targetId \in DOMAIN ns}
      d(k) == distanceToSegment(point, ns[es[k].sourceId], ns[es[k].targetId])
  IN IF K = {} THEN NULL
     ELSE LET n == CHOOSE k \in K :
                     /\ \A j \in K : ~FracLess(d(j), d(k))
                     /\ \A j \in K : j < k => FracLess(d(k), d(j))
          IN es[n].id

(* ---- map and topology operations ---- *)

\* the "Auto-map routers if not mapped" loop of loadMap for one router
AutoMap(r, es, ns) ==
  IF Len(r.mappedEdgeIds) = 0
  THEN LET nearest == findNearestEdge(r, es, ns)
       IN IF nearest # NULL THEN [r EXCEPT !.mappedEdgeIds = <<nearest>>] ELSE r
  ELSE r

\* loadMap(data)
loadMap(data) ==
  /\ nodes' = data.nodes
  /\ edges' = data.edges
  /\ routers' = [i \in 1..Len(data.routers) |-> AutoMap(data.routers[i], data.edges, data.nodes)]
  /\ trucks' = <<>>
  /\ time' = 0
  /\ completedTrips' = 0
  /\ totalTripTime' = 0
  /\ totalTripDistance' = 0
  /\ nextTruckId' = 1
  /\ UNCHANGED <<config, baseTripTimeAccumulator>>

\* slip: the loop over the edges is left out
ResetEdges_Forgotten(es) == es

\* the forEach of clearSimulation over the edges
ResetEdges(es) ==
  [i \in 1..Len(es) |-> [es[i] EXCEPT !.currentLoad = 0,
                                      !.currentWeight = es[i].baseTravelTime * WScale]]

\* slip: the counter of the truck ids is not reset
clearSimulation_KeepsNextId ==
  /\ trucks' = <<>>
  /\ time' = 0
  /\ completedTrips' = 0
  /\ totalTripTime' = 0
  /\ totalTripDistance' = 0
  /\ baseTripTimeAccumulator' = 0
  /\ edges' = ResetEdges(edges)
  /\ UNCHANGED <<nodes, routers, config, nextTruckId>>

\* clearSimulation()
clearSimulation ==
  /\ trucks' = <<>>
  /\ time' = 0
  /\ completedTrips' = 0
  /\ totalTripTime' = 0
  /\ totalTripDistance' = 0
  /\ baseTripTimeAccumulator' = 0
  /\ nextTruckId' = 1
  /\ edges' = ResetEdges(edges)
  /\ UNCHANGED <<nodes, routers, config>>

\* addNode(node): Map.set adds the node or replaces the one with its id
addNode(id, node) ==
  /\ nodes' = (id :> node) @@ nodes
  /\ UNCHANGED <<edges, routers, trucks, time, config, nextTruckId, completedTrips,
                 totalTripTime, totalTripDistance, baseTripTimeAccumulator>>

\* the filter of removeNode over the mappedEdgeIds of every router
PurgeMissing(rs, es) ==
  [i \in 1..Len(rs) |->
     [rs[i] EXCEPT !.mappedEdgeIds = SelectSeq(@, LAMBDA eid : FindEdge(es, eid) # 0)]]

\* the filter of removeEdge over the mappedEdgeIds of every router
PurgeEdge(rs, id) ==
  [i \in 1..Len(rs) |-> [rs[i] EXCEPT !.mappedEdgeIds = SelectSeq(@, LAMBDA eid : eid # id)]]

\* removeNode(id)
removeNode(id) ==
  LET es == SelectSeq(edges, LAMBDA e : e.sourceId # id /\ e.targetId # id)
  IN /\ nodes' = [n \in DOMAIN nodes \ {id} |-> nodes[n]]
     /\ edges' = es
     /\ routers' = PurgeMissing(routers, es)
     /\ UNCHANGED <<trucks, time, config, nextTruckId, completedTrips, totalTripTime,
                    totalTripDistance, baseTripTimeAccumulator>>

\* addEdge(edge)
addEdge(edge) ==
  /\ edges' = Append(edges, edge)
  /\ UNCHANGED <<nodes, routers, trucks, time, config, nextTruckId, completedTrips,
                 totalTripTime, totalTripDistance, baseTripTimeAccumulator>>

\* removeEdge(id)
removeEdge(id) ==
  /\ edges' = SelectSeq(edges, LAMBDA e : e.id # id)
  /\ routers' = PurgeEdge(routers, id)
  /\ UNCHANGED <<nodes, trucks, time, config, nextTruckId, completedTrips, totalTripTime,
                 totalTripDistance, baseTripTimeAccumulator>>

\* addRouter(router)
addRouter(router) ==
  LET nearest == findNearestEdge(router, edges, nodes)
  IN /\ routers' = Append(routers, [router EXCEPT !.mappedEdgeIds =
                                       IF nearest # NULL THEN <<nearest>> ELSE <<>>])
     /\ UNCHANGED <<nodes, edges, trucks, time, config, nextTruckId, completedTrips,
                    totalTripTime, totalTripDistance, baseTripTimeAccumulator>>

\* removeRouter(id)
removeRouter(id) ==
  /\ routers' = SelectSeq(routers, LAMBDA r : r.id # id)
  /\ UNCHANGED <<nodes, edges, trucks, time, config, nextTruckId, completedTrips,
                 totalTripTime, totalTripDistance, baseTripTimeAccumulator>>

\* App.handleToggleClosure(edgeId)
handleToggleClosure(edgeId) ==
  LET k == FindEdge(edges, edgeId)
  IN /\ k # 0
     /\ edges' = [edges EXCEPT ![k].isClosed = ~@]
     /\ UNCHANGED <<nodes, routers, trucks, time, config, nextTruckId, completedTrips,
                    totalTripTime, totalTripDistance, baseTripTimeAccumulator>>

(***************************************************************************)
(* Maps and configurations                                                 *)
(***************************************************************************)
\* an Edge record with load 0 and the free-flow weight
MkEdge(id, src, tgt, len, cap, speed, t0) ==
  [id |-> id, sourceId |-> src, targetId |-> tgt, length |-> len, capacity |-> cap,
   baseSpeed |-> speed, baseTravelTime |-> t0, currentLoad |-> 0,
   currentWeight |-> t0 * WScale, isClosed |-> FALSE]

MkConfig(dt, n, interval, smin, smax, policy) ==
  [dt |-> dt, hysteresisN |-> n, routerNoiseSigma |-> 10, alpha |-> 1, beta |-> 2,
   rerouteInterval |-> interval, truckSpeedMin |-> smin, truckSpeedMax |-> smax,
   policy |-> policy]

Policies == {"queue", "closed_when_full"}

\* a junction n2 with a direct road e2 to n4 and a detour e3, e4 over n3
MainNodes ==
  ("n1" :> [x |-> 0, y |-> 0]) @@ ("n2" :> [x |-> 3, y |-> 0]) @@
  ("n3" :> [x |-> 3, y |-> 4]) @@ ("n4" :> [x |-> 6, y |-> 0])

MainEdges ==
  <<MkEdge("e1", "n1", "n2", 2, 2, 5, 1), MkEdge("e2", "n2", "n4", 2, 1, 5, 3),
    MkEdge("e3", "n2", "n3", 1, 2, 5, 1), MkEdge("e4", "n3", "n4", 1, 2, 5, 1)>>

MainRouters == <<[id |-> "r1", x |-> 1, y |-> 0, mappedEdgeIds |-> <<"e1">>]>>

\* start and destination pairs handed to spawnTruck: two routes, an empty
\* route, an unknown node and an unreachable destination
SpawnInputs == {<<"n1", "n4">>, <<"n2", "n4">>, <<"n1", "n1">>, <<"nX", "n4">>, <<"n4", "n1">>}

\* edges whose closure is toggled
ToggleInputs == {"e2", "e3", "eX"}

\* no call of a public operation is recorded
NoCall == [op |-> "none", arg |-> <<>>, ok |-> FALSE, ret |-> "undefined"]

\* no findPath call is recorded
NoAnswer == [start |-> NULL, goal |-> NULL, called |-> FALSE, result |-> NoPath]

\* the engine after construction and loadMap(ns, es, rs); nothing recorded
Loaded(ns, es, rs, cfg) ==
  /\ nodes = ns
  /\ edges = es
  /\ routers = rs
  /\ trucks = <<>>
  /\ time = 0
  /\ config = cfg
  /\ nextTruckId = 1
  /\ completedTrips = 0
  /\ totalTripTime = 0
  /\ totalTripDistance = 0
  /\ baseTripTimeAccumulator = 0
  /\ readings = <<>>
  /\ answer = NoAnswer
  /\ call = NoCall

(***************************************************************************)
(* Spec: the engine on the main map                                        *)
(***************************************************************************)
Init ==
  \E policy \in Policies :
    Loaded(MainNodes, MainEdges, MainRouters, MkConfig(1, 2, 2, 1, 3, policy))

SpawnTruck ==
  /\ nextTruckId <= MaxTrucks
  /\ \E io \in SpawnInputs : spawnTruck(io[1], io[2])
  /\ UNCHANGED <<readings, answer, call>>

Tick == tick(FALSE, MaxTime) /\ UNCHANGED call

ToggleClosure ==
  /\ \E id \in ToggleInputs : handleToggleClosure(id)
  /\ UNCHANGED <<readings, answer, call>>

Next == SpawnTruck \/ Tick \/ ToggleClosure

Spec == Init /\ [][Next]_vars

(***************************************************************************)
(* SpecHyst: one truck on a long road among three beacons; the readings    *)
(* each tick feeds to the filter are recorded                              *)
(***************************************************************************)
HystNodes == ("h1" :> [x |-> 0, y |-> 0]) @@ ("h2" :> [x |-> 8, y |-> 0])

HystEdges == <<MkEdge("he", "h1", "h2", 8, 2, 4, 2)>>

HystRouters ==
  <<[id |-> "rA", x |-> 0, y |-> 0, mappedEdgeIds |-> <<>>],
    [id |-> "rB", x |-> 4, y |-> 0, mappedEdgeIds |-> <<"he">>],
    [id |-> "rC", x |-> 8, y |-> 0, mappedEdgeIds |-> <<"he">>]>>

Thresholds == {1, 2, 3}

InitHyst ==
  \E n \in Thresholds :
    Loaded(HystNodes, HystEdges, HystRouters, MkConfig(1, n, 2, 1, 1, "queue"))

SpawnHyst ==
  /\ nextTruckId = 1
  /\ spawnTruck("h1", "h2")
  /\ UNCHANGED <<readings, answer, call>>

TickHyst == tick(TRUE, MaxReads) /\ UNCHANGED call

NextHyst == SpawnHyst \/ TickHyst

SpecHyst == InitHyst /\ [][NextHyst]_vars

(***************************************************************************)
(* SpecPath: findPath on graphs whose weights, speeds and closures are     *)
(* drawn freely                                                            *)
(***************************************************************************)
\* corners of a 4 x 3 rectangle: all distances are integers
PathNodes ==
  ("S" :> [x |-> 0, y |-> 0]) @@ ("A" :> [x |-> 0, y |-> 3]) @@
  ("B" :> [x |-> 4, y |-> 0]) @@ ("G" :> [x |-> 4, y |-> 3])

PathSpeeds == {1, 2}

PathWeights == {k * WScale : k \in 1..MaxW}

\* an edge of the drawn graph
PathEdge(id, src, tgt, w, speed, closed) ==
  [MkEdge(id, src, tgt, 5, 2, speed, 1) EXCEPT !.currentWeight = w, !.isClosed = closed]

EdgeChoices == PathWeights \X PathSpeeds \X BOOLEAN

PathEdges(c1, c2, c3, c4) ==
  <<PathEdge("sa", "S", "A", c1[1], c1[2], c1[3]),
    PathEdge("sb", "S", "B", c2[1], c2[2], c2[3]),
    PathEdge("ag", "A", "G", c3[1], c3[2], c3[3]),
    PathEdge("bg", "B", "G", c4[1], c4[2], c4[3]),
    PathEdge("gs", "G", "S", WScale, 1, FALSE)>>

QueryNodes == {"S", "A", "B", "G", "nX"}

\* the graph and the arguments of the call are drawn
InitPath ==
  \E c1 \in EdgeChoices, c2 \in EdgeChoices, c3 \in EdgeChoices, c4 \in EdgeChoices,
     s \in QueryNodes, g \in QueryNodes :
    /\ nodes = PathNodes
    /\ edges = PathEdges(c1, c2, c3, c4)
    /\ routers = <<>>
    /\ trucks = <<>>
    /\ time = 0
    /\ config = MkConfig(1, 3, 2, 1, 1, "queue")
    /\ nextTruckId = 1
    /\ completedTrips = 0
    /\ totalTripTime = 0
    /\ totalTripDistance = 0
    /\ baseTripTimeAccumulator = 0
    /\ readings = <<>>
    /\ answer = [start |-> s, goal |-> g, called |-> FALSE, result |-> NoPath]
    /\ call = NoCall

\* the call findPath(start, goal, nodes, edges) and the value it returns
Query ==
  /\ ~answer.called
  /\ answer' = [answer EXCEPT !.called = TRUE,
                              !.result = findPath(answer.start, answer.goal, nodes, edges)]
  /\ UNCHANGED <<engineVars, readings, call>>

NextPath == Query

SpecPath == InitPath /\ [][NextPath]_vars

(***************************************************************************)
(* SpecTrip: one truck of speed 20 on a route of two edges that total 200  *)
(***************************************************************************)
TripNodes ==
  ("t1" :> [x |-> 0, y |-> 0]) @@ ("t2" :> [x |-> 1, y |-> 0]) @@ ("t3" :> [x |-> 2, y |-> 0])

\* the two edges: len1 and the rest of the 200 units
TripEdges(len1) ==
  <<MkEdge("ta", "t1", "t2", len1, 2, 1, 5), MkEdge("tb", "t2", "t3", 200 - len1, 2, 1, 5)>>

\* dt = 1 and truckSpeedMin = truckSpeedMax = 20
InitTrip ==
  \E len1 \in 1..199 :
    Loaded(TripNodes, TripEdges(len1), <<>>, MkConfig(1, 3, 2, 20, 20, "queue"))

SpawnTrip ==
  /\ nextTruckId = 1
  /\ spawnTruck("t1", "t3")
  /\ UNCHANGED <<readings, answer, call>>

TickTrip == tick(FALSE, MaxTripTime) /\ UNCHANGED call

NextTrip == SpawnTrip \/ TickTrip

SpecTrip == InitTrip /\ [][NextTrip]_vars

(***************************************************************************)
(* SpecQueue: two parallel routes q1 -> q2, route 1 of capacity 1 and      *)
(* free-flow time 10, route 2 of capacity 5 and free-flow time 12          *)
(***************************************************************************)
QueueNodes == ("q1" :> [x |-> 0, y |-> 0]) @@ ("q2" :> [x |-> 5, y |-> 0])

QueueEdges ==
  <<MkEdge("r1", "q1", "q2", 4, 1, 1, 10), MkEdge("r2", "q1", "q2", 4, 5, 1, 12)>>

InitQueue == Loaded(QueueNodes, QueueEdges, <<>>, MkConfig(1, 3, 2, 1, 1, "queue"))

SpawnQueue ==
  /\ nextTruckId <= MaxQueueTrucks
  /\ spawnTruck("q1", "q2")
  /\ UNCHANGED <<readings, answer, call>>

TickQueue == tick(FALSE, MaxQueueTime) /\ UNCHANGED call

NextQueue == SpawnQueue \/ TickQueue

SpecQueue == InitQueue /\ [][NextQueue]_vars

(***************************************************************************)
(* SpecOps: the life cycle of a simulation on the main map - spawning,     *)
(* ticking, closures, loadMap and clearSimulation.  Every call is recorded *)
(* in the variable call: its name, its arguments, the value it returned    *)
(* and, for spawnTruck, whether it created a truck (the other operations   *)
(* have ok = TRUE).                                                        *)
(***************************************************************************)
\* a route, an unknown start node, an unknown destination, no path
OpsSpawnInputs == {<<"n1", "n4">>, <<"nX", "n4">>, <<"n1", "nX">>, <<"n4", "n1">>}

\* the map as first handed to loadMap
FreshMap == [nodes |-> MainNodes, edges |-> MainEdges, routers |-> MainRouters]

\* the same map object after a run: the engine shares the edge records it was
\* given and has written their load, weight and closed flag
StaleMap ==
  [FreshMap EXCEPT !.edges =
     [i \in 1..Len(MainEdges) |->
        LET k == FindEdge(edges, MainEdges[i].id)
        IN IF k = 0 THEN MainEdges[i]
           ELSE [MainEdges[i] EXCEPT !.currentLoad = edges[k].currentLoad,
                                     !.currentWeight = edges[k].currentWeight,
                                     !.isClosed = edges[k].isClosed]]]

Called(op, arg, ok, ret) == call' = [op |-> op, arg |-> arg, ok |-> ok, ret |-> ret]

InitOps ==
  \E policy \in Policies :
    Loaded(MainNodes, MainEdges, MainRouters, MkConfig(1, 2, 2, 1, 1, policy))

OpsSpawn ==
  /\ nextTruckId <= MaxOpsTrucks
  /\ \E io \in OpsSpawnInputs :
       /\ spawnTruck(io[1], io[2])
       /\ Called("spawnTruck", io, Len(trucks') = Len(trucks) + 1,
                 spawnTruckReturn(io[1], io[2]))
  /\ UNCHANGED <<readings, answer>>

OpsTick == tick(FALSE, MaxOpsTime) /\ Called("tick", <<>>, TRUE, "undefined")

OpsToggle ==
  /\ handleToggleClosure("e3")
  /\ Called("handleToggleClosure", <<"e3">>, TRUE, "undefined")
  /\ UNCHANGED <<readings, answer>>

\* loadMap with the fresh map, or with the map object left by the run so far
OpsLoadMap ==
  /\ \E which \in {"fresh", "stale"} :
       /\ which = "stale" => \A k \in 1..Len(edges) : edges[k].currentLoad <= MaxOpsLoad
       /\ loadMap(IF which = "fresh" THEN FreshMap ELSE StaleMap)
       /\ Called("loadMap", <<which>>, TRUE, "undefined")
  /\ UNCHANGED <<readings, answer>>

OpsClear ==
  /\ clearSimulation
  /\ Called("clearSimulation", <<>>, TRUE, "undefined")
  /\ UNCHANGED <<readings, answer>>

NextOps == OpsSpawn \/ OpsTick \/ OpsToggle \/ OpsLoadMap \/ OpsClear

SpecOps == InitOps /\ [][NextOps]_vars

(***************************************************************************)
(* SpecEdit: the edits of nodes, edges and beacons on the main map, with   *)
(* a truck under way; the calls are recorded as in SpecOps                 *)
(***************************************************************************)
AddNodeInputs == {<<"n3", [x |-> 3, y |-> 4]>>}

RemoveNodeInputs == {"n3", "nX"}

\* an edge to a node that does not exist, and an edge of capacity 0
AddEdgeInputs == {MkEdge("e6", "n2", "nX", 1, 1, 5, 1), MkEdge("e7", "n4", "n1", 1, 0, 5, 1)}

RemoveEdgeInputs == {"e3", "eX"}

AddRouterInputs == {[id |-> "r2", x |-> 3, y |-> 2, mappedEdgeIds |-> <<>>]}

RemoveRouterInputs == {"r1", "rX"}

InitEdit == Loaded(MainNodes, MainEdges, MainRouters, MkConfig(1, 2, 2, 1, 1, "queue"))

EditSpawn ==
  /\ nextTruckId <= MaxEditTrucks
  /\ spawnTruck("n1", "n4")
  /\ Called("spawnTruck", <<"n1", "n4">>, Len(trucks') = Len(trucks) + 1,
            spawnTruckReturn("n1", "n4"))
  /\ UNCHANGED <<readings, answer>>

EditTick == tick(FALSE, MaxEditTime) /\ Called("tick", <<>>, TRUE, "undefined")

EditAddNode ==
  /\ \E n \in AddNodeInputs : addNode(n[1], n[2]) /\ Called("addNode", <<n[1]>>, TRUE, "undefined")
  /\ UNCHANGED <<readings, answer>>

EditRemoveNode ==
  /\ \E id \in RemoveNodeInputs : removeNode(id) /\ Called("removeNode", <<id>>, TRUE, "undefined")
  /\ UNCHANGED <<readings, answer>>

\* the caller gives every edge an id of its own
EditAddEdge ==
  /\ \E e \in AddEdgeInputs :
       /\ FindEdge(edges, e.id) = 0
       /\ addEdge(e)
       /\ Called("addEdge", <<e.id>>, TRUE, "undefined")
  /\ UNCHANGED <<readings, answer>>

EditRemoveEdge ==
  /\ \E id \in RemoveEdgeInputs : removeEdge(id) /\ Called("removeEdge", <<id>>, TRUE, "undefined")
  /\ UNCHANGED <<readings, answer>>

EditAddRouter ==
  /\ \E r \in AddRouterInputs :
       /\ \A i \in 1..Len(routers) : routers[i].id # r.id
       /\ addRouter(r)
       /\ Called("addRouter", <<r.id>>, TRUE, "undefined")
  /\ UNCHANGED <<readings, answer>>

EditRemoveRouter ==
  /\ \E id \in RemoveRouterInputs :
       removeRouter(id) /\ Called("removeRouter", <<id>>, TRUE, "undefined")
  /\ UNCHANGED <<readings, answer>>

NextEdit ==
  \/ EditSpawn \/ EditTick \/ EditAddNode \/ EditRemoveNode \/ EditAddEdge
  \/ EditRemoveEdge \/ EditAddRouter \/ EditRemoveRouter

SpecEdit == InitEdit /\ [][NextEdit]_vars

(***************************************************************************)
(* SpecCong: the congestion model on two edges of equal capacity and       *)
(* free-flow time whose loads, like alpha and beta, are drawn freely       *)
(***************************************************************************)
CongNodes == ("c1" :> [x |-> 0, y |-> 0]) @@ ("c2" :> [x |-> 3, y |-> 0])

\* capacities whose powers divide WScale
CongCapacities == {1, 2, 5}

\* the two edge records, with loads n and m, as handed to loadMap
CongEdges(C, T0, n, m) ==
  <<[MkEdge("ca", "c1", "c2", 3, C, 1, T0) EXCEPT !.currentLoad = n],
    [MkEdge("cb", "c1", "c2", 3, C, 1, T0) EXCEPT !.currentLoad = m]>>

InitCong ==
  \E C \in CongCapacities, T0 \in 0..MaxT0, n \in 0..MaxLoad, m \in 0..MaxLoad,
     a \in 0..MaxAlpha, b \in 0..MaxBeta :
    Loaded(CongNodes, CongEdges(C, T0, n, m), <<>>,
           [MkConfig(1, 3, 2, 1, 1, "queue") EXCEPT !.alpha = a, !.beta = b])

TickCong == tick(FALSE, MaxCongTime) /\ UNCHANGED call

NextCong == TickCong

SpecCong == InitCong /\ [][NextCong]_vars

(***************************************************************************)
(* SpecFail: a feeder road fa into two parallel routes r1 (capacity 1,     *)
(* free-flow time 10) and r2 (capacity 5, free-flow time 12) and an exit   *)
(* road fg that can be closed or removed, so that trucks wait, lose their  *)
(* current edge or their destination while others are under way            *)
(***************************************************************************)
FailNodes ==
  ("f0" :> [x |-> 0, y |-> 0]) @@ ("f1" :> [x |-> 1, y |-> 0]) @@
  ("f2" :> [x |-> 5, y |-> 0]) @@ ("f3" :> [x |-> 6, y |-> 0])

FailEdges ==
  <<MkEdge("fa", "f0", "f1", 3, 5, 1, 1), MkEdge("r1", "f1", "f2", 3, 1, 1, 10),
    MkEdge("r2", "f1", "f2", 3, 5, 1, 12), MkEdge("fg", "f2", "f3", 1, 5, 1, 1)>>

FailSpawnInputs == {<<"f1", "f3">>, <<"f0", "f2">>}

FailRemoveInputs == {"fg", "r1"}

InitFail ==
  \E policy \in Policies :
    Loaded(FailNodes, FailEdges, <<>>, MkConfig(1, 3, 2, 1, 1, policy))

SpawnFail ==
  /\ nextTruckId <= MaxFailTrucks
  /\ \E io \in FailSpawnInputs : spawnTruck(io[1], io[2])
  /\ UNCHANGED <<readings, answer, call>>

TickFail == tick(FALSE, MaxFailTime) /\ UNCHANGED call

ToggleFail ==
  /\ handleToggleClosure("fg")
  /\ UNCHANGED <<readings, answer, call>>

RemoveEdgeFail ==
  /\ \E id \in FailRemoveInputs : FindEdge(edges, id) # 0 /\ removeEdge(id)
  /\ UNCHANGED <<readings, answer, call>>

NextFail == SpawnFail \/ TickFail \/ ToggleFail \/ RemoveEdgeFail

SpecFail == InitFail /\ [][NextFail]_vars

\* the same with a driver that keeps calling tick(): the clock, which only
\* tick() advances, does not stop short of the horizon
SpecFailLive ==
  SpecFail /\ WF_time(time < MaxFailTime /\ time' = time + config.dt)

(***************************************************************************)
(* SpecCadence: one truck on a road too long to be completed before the    *)
(* horizon, under every time step dt and every re-plan interval with       *)
(* dt <= interval, both counted in a common unit of time                   *)
(***************************************************************************)
\* longer than any truck of speed 1 gets before the clock stops
CadenceLength == MaxCadenceTime + MaxDt + 1

CadenceNodes ==
  ("k0" :> [x |-> 0, y |-> 0]) @@ ("k1" :> [x |-> CadenceLength, y |-> 0]) @@
  ("k2" :> [x |-> CadenceLength + 1, y |-> 0])

CadenceEdges ==
  <<MkEdge("ka", "k0", "k1", CadenceLength, 5, 1, 1), MkEdge("kb", "k1", "k2", 1, 5, 1, 1)>>

InitCadence ==
  \E dt \in 1..MaxDt :
    \E interval \in dt..MaxInterval :
      Loaded(CadenceNodes, CadenceEdges, <<>>, MkConfig(dt, 3, interval, 1, 1, "queue"))

SpawnCadence ==
  /\ nextTruckId = 1
  /\ spawnTruck("k0", "k2")
  /\ UNCHANGED <<readings, answer, call>>

TickCadence == tick(FALSE, MaxCadenceTime) /\ UNCHANGED call

NextCadence == SpawnCadence \/ TickCadence

SpecCadence == InitCadence /\ [][NextCadence]_vars

(***************************************************************************)
(* SpecOrder: a chain of two roads oa, ob of one tick each, whose second   *)
(* road can be removed and added again while trucks are on it              *)
(***************************************************************************)
OrderNodes ==
  ("o0" :> [x |-> 0, y |-> 0]) @@ ("o1" :> [x |-> 1, y |-> 0]) @@
  ("o2" :> [x |-> 2, y |-> 0])

\* the road that is removed and added again
OrderEdge == MkEdge("ob", "o1", "o2", 1, 5, 1, 1)

OrderEdges == <<MkEdge("oa", "o0", "o1", 1, 5, 1, 1), OrderEdge>>

OrderSpawnInputs == {<<"o0", "o2">>, <<"o1", "o2">>}

InitOrder == Loaded(OrderNodes, OrderEdges, <<>>, MkConfig(1, 3, 2, 1, 1, "queue"))

SpawnOrder ==
  /\ nextTruckId <= MaxOrderTrucks
  /\ \E io \in OrderSpawnInputs : spawnTruck(io[1], io[2])
  /\ UNCHANGED <<readings, answer, call>>

TickOrder == tick(FALSE, MaxOrderTime) /\ UNCHANGED call

RemoveEdgeOrder == removeEdge(OrderEdge.id) /\ UNCHANGED <<readings, answer, call>>

AddEdgeOrder ==
  /\ FindEdge(edges, OrderEdge.id) = 0
  /\ addEdge(OrderEdge)
  /\ UNCHANGED <<readings, answer, call>>

NextOrder == SpawnOrder \/ TickOrder \/ RemoveEdgeOrder \/ AddEdgeOrder

SpecOrder == InitOrder /\ [][NextOrder]_vars

(***************************************************************************)
(* SpecLoads: the map of SpecFail with no topology edit: trucks are        *)
(* spawned, ticks pass, the exit road fg is closed and opened and the      *)
(* simulation is cleared                                                   *)
(***************************************************************************)
InitLoads ==
  \E policy \in Policies :
    Loaded(FailNodes, FailEdges, <<>>, MkConfig(1, 3, 2, 1, 1, policy))

SpawnLoads ==
  /\ nextTruckId <= MaxLoadsTrucks
  /\ \E io \in FailSpawnInputs : spawnTruck(io[1], io[2])
  /\ UNCHANGED <<readings, answer, call>>

TickLoads == tick(FALSE, MaxLoadsTime) /\ UNCHANGED call

ToggleLoads == handleToggleClosure("fg") /\ UNCHANGED <<readings, answer, call>>

ClearLoads ==
  /\ clearSimulation
  /\ Called("clearSimulation", <<>>, TRUE, "undefined")
  /\ UNCHANGED <<readings, answer>>

NextLoads == SpawnLoads \/ TickLoads \/ ToggleLoads \/ ClearLoads

SpecLoads == InitLoads /\ [][NextLoads]_vars

(***************************************************************************)
(* SpecLive: two junctions la, lb joined in both directions, each with a   *)
(* road of capacity 1 to the destination ld; no road is closed and the map *)
(* is not edited; every road takes a truck one tick                        *)
(***************************************************************************)
LiveNodes ==
  ("la" :> [x |-> 0, y |-> 0]) @@ ("lb" :> [x |-> 0, y |-> 6]) @@
  ("ld" :> [x |-> 4, y |-> 3])

LiveEdges ==
  <<MkEdge("ab", "la", "lb", 2, 5, 5, 1), MkEdge("ba", "lb", "la", 2, 5, 5, 1),
    MkEdge("ad", "la", "ld", 2, 1, 5, 3), MkEdge("bd", "lb", "ld", 2, 1, 5, 3)>>

LiveSpawnInputs == {<<"la", "ld">>, <<"lb", "ld">>}

LiveIntervals == {1, 2}

InitLive ==
  \E interval \in LiveIntervals :
    Loaded(LiveNodes, LiveEdges, <<>>, MkConfig(1, 3, interval, 1, 1, "queue"))

SpawnLive ==
  /\ nextTruckId <= MaxLiveTrucks
  /\ time < MaxLiveTime
  /\ \E io \in LiveSpawnInputs : spawnTruck(io[1], io[2])
  /\ UNCHANGED <<readings, answer, call>>

TickLive == tick(FALSE, MaxLiveTime) /\ UNCHANGED call

NextLive == SpawnLive \/ TickLive

\* the driver keeps calling tick(): the clock does not stop short of the horizon
SpecLive ==
  InitLive /\ [][NextLive]_vars /\ WF_time(time < MaxLiveTime /\ time' = time + config.dt)

(***************************************************************************)
(* Claims                                                                  *)
(***************************************************************************)
\* number of active trucks whose currentEdgeId is id
Occupants(ts, id) == Cardinality({i \in 1..Len(ts) : ts[i].currentEdgeId = id})

LoadsMatchOccupants ==
  \A k \in 1..Len(edges) : edges[k].currentLoad = Occupants(trucks, edges[k].id)

\* C1: after the motion phase and pruning of every tick, each edge's
\* currentLoad is the number of active trucks whose currentEdgeId is that
\* edge, moving or waiting.  (Localization, the congestion model and
\* rerouting change neither loads nor currentEdgeId nor the active set, so
\* the state the tick returns shows the loads the motion phase left.)
C1_LoadEqualsOccupants == [][time' # time => LoadsMatchOccupants']_vars

(* ---- hysteresis ---- *)

\* the sequence holds n consecutive equal readings
HasRun(log, n) ==
  \E k \in 1..(Len(log) - n + 1) : \A j \in k..(k + n - 1) : log[j] = log[k]

\* the last n readings of the sequence all are c
EndsWithRun(log, n, c) ==
  Len(log) >= n /\ \A j \in (Len(log) - n + 1)..Len(log) : log[j] = c

TruckById(ts, id) == ts[CHOOSE i \in 1..Len(ts) : ts[i].id = id]

TruckIds(ts) == {ts[i].id : i \in 1..Len(ts)}

\* C2: as long as the readings of a truck never held hysteresisN consecutive
\* readings of one beacon, its inferred beacon is the initial one (null).
C2_HysteresisStable ==
  \A id \in DOMAIN readings :
    ~HasRun(readings[id], config.hysteresisN)
      => TruckById(trucks, id).inferredRouterId = NULL

\* the readings A,B,A,B,A,B with threshold 3 left the inferred beacon null
C2_Witness ==
  /\ config.hysteresisN = 3
  /\ 1 \in DOMAIN readings
  /\ readings[1] = <<"rA", "rB", "rA", "rB", "rA", "rB">>
  /\ TruckById(trucks, 1).inferredRouterId = NULL

\* C3: a tick changes the inferred beacon of a truck exactly when its reading
\* c differs from the inferred beacon and is the hysteresisN-th consecutive
\* reading of c, and then the inferred beacon becomes c.
C3_CommitExactlyAtNth ==
  [][time' # time =>
       \A id \in DOMAIN readings' :
         LET old == TruckById(trucks, id)
             new == TruckById(trucks', id)
             log == readings'[id]
             c == log[Len(log)]
             switch == new.inferredRouterId # old.inferredRouterId
         IN /\ switch <=> (c # old.inferredRouterId /\ EndsWithRun(log, config.hysteresisN, c))
            /\ switch => new.inferredRouterId = c /\ new.lastRouterSwitchTime = time']_vars

\* after A,B,B,B with threshold 3 the inferred beacon is B, switched in this tick
C3_Witness ==
  /\ config.hysteresisN = 3
  /\ 1 \in DOMAIN readings
  /\ readings[1] = <<"rA", "rB", "rB", "rB">>
  /\ TruckById(trucks, 1).inferredRouterId = "rB"
  /\ TruckById(trucks, 1).lastRouterSwitchTime = time

(* ---- path planner ---- *)

\* Infinity: a cost no path reaches
Infinity == 1000 * WScale

RECURSIVE PathWeight(_, _)
\* the sum of currentWeight over the edges the ids of path name
PathWeight(path, es) ==
  IF path = <<>> THEN 0
  ELSE es[FindEdge(es, Head(path))].currentWeight + PathWeight(Tail(path), es)

RECURSIVE BellmanFord(_, _, _)
\* least cost from the start to every node over at most k more non-closed edges
BellmanFord(d, es, k) ==
  IF k = 0 THEN d
  ELSE BellmanFord(
         [v \in DOMAIN d |->
            LET into == {i \in 1..Len(es) : es[i].targetId = v /\ ~es[i].isClosed
                                            /\ d[es[i].sourceId] < Infinity}
                costs == {d[v]} \cup {d[es[i].sourceId] + es[i].currentWeight : i \in into}
            IN CHOOSE m \in costs : \A c \in costs : m <= c],
         es, k - 1)

GraphNodes(ns, es) ==
  DOMAIN ns \cup {es[i].sourceId : i \in 1..Len(es)} \cup {es[i].targetId : i \in 1..Len(es)}

\* least cost of a path from start to goal over non-closed edges, Infinity if none
MinCost(start, goal, ns, es) ==
  LET V == GraphNodes(ns, es) \cup {start, goal}
      d0 == [v \in V |-> IF v = start THEN 0 ELSE Infinity]
  IN BellmanFord(d0, es, Cardinality(V))[goal]

\* goal can be reached from start over non-closed edges
Reachable(start, goal, ns, es) == MinCost(start, goal, ns, es) < Infinity

\* C4: a returned path has the least summed currentWeight of all paths from
\* start to goal over non-closed edges.
C4_PathIsOptimal ==
  answer.result.found =>
    PathWeight(answer.result.path, edges) = MinCost(answer.start, answer.goal, nodes, edges)

\* C5: the reported eta is the sum of currentWeight over the returned path.
C5_EtaIsPathWeight ==
  answer.result.found => answer.result.eta = PathWeight(answer.result.path, edges)

\* a path of two edges was returned
C5_Witness == answer.result.found /\ Len(answer.result.path) = 2

\* C6: no returned path contains an edge that is closed.
C6_NoClosedEdgeOnPath ==
  answer.result.found =>
    \A j \in 1..Len(answer.result.path) :
      ~edges[FindEdge(edges, answer.result.path[j])].isClosed

\* a path was returned although an edge leaving the start is closed
C6_Witness ==
  /\ answer.result.found
  /\ Len(answer.result.path) = 2
  /\ \E k \in 1..Len(edges) : edges[k].sourceId = answer.start /\ edges[k].isClosed

TripBookedInTenthTick ==
  /\ \A i \in 1..Len(trucks) : trucks[i].totalTime < 10 * config.dt
  /\ completedTrips <= 1
  /\ completedTrips = 1 =>
       /\ totalTripTime = 10 * config.dt
       /\ totalTripDistance = 10 * config.truckSpeedMin * config.dt
       /\ getStats.activeTrucks = 0
       /\ getStats.completedTrips = 1

\* both edges end on a tick boundary of the truck
TripAligned ==
  \A k \in 1..Len(edges) : edges[k].length % (config.truckSpeedMin * config.dt) = 0

\* C8 as stated: on any 2-edge route totalling 200 the truck of speed 20
\* finishes in exactly the 10th tick, is counted once and leaves the active set.
C8_AnyRouteTenTicks == TripBookedInTenthTick

\* C8 amended: the same, on routes whose two edge lengths are multiples of 20.
C8_AlignedRouteTenTicks == TripAligned => TripBookedInTenthTick

\* the trip over edges of 60 and 140 is completed and booked
C8_Witness ==
  /\ edges[1].length = 60
  /\ completedTrips = 1
  /\ totalTripTime = 10
  /\ trucks = <<>>

(* ---- congestion avoidance ---- *)

\* the step spawned a truck
Spawned == Len(trucks') = Len(trucks) + 1 /\ nextTruckId' = nextTruckId + 1

\* the first truck is on route 1
FirstOnRoute1 ==
  \E i \in 1..Len(trucks) : trucks[i].id = 1 /\ trucks[i].currentEdgeId = "r1"

\* a tick has run since the first truck was spawned
FirstHasMoved == \E i \in 1..Len(trucks) : trucks[i].id = 1 /\ trucks[i].totalTime > 0

\* C9 as stated: every truck spawned while the first truck is on route 1 is
\* given a plan over route 2.
C9_LaterSpawnsTakeRoute2 ==
  [][(Spawned /\ FirstOnRoute1) => trucks'[Len(trucks')].routePlan = <<"r2">>]_vars

\* C9 amended: every truck spawned while the first truck is on route 1, after
\* a tick has recomputed the weights and while route 2 carries fewer than 5
\* trucks, is given a plan over route 2.
C9_SpawnsAfterTickTakeRoute2 ==
  [][(Spawned /\ FirstOnRoute1 /\ FirstHasMoved /\ edges[2].currentLoad < 5)
       => trucks'[Len(trucks')].routePlan = <<"r2">>]_vars

\* the first truck is on route 1 and has moved, and a truck just spawned
\* joined others on route 2
C9_Witness ==
  /\ FirstOnRoute1 /\ FirstHasMoved
  /\ Len(trucks) >= 3
  /\ trucks[Len(trucks)].totalTime = 0
  /\ trucks[Len(trucks)].routePlan = <<"r2">>
  /\ edges[2].currentLoad >= 2

(* ---- closure reroute ---- *)

\* path is a chain of existing, non-closed edges from node from to node to
IsOpenRoute(path, from, to, es) ==
  /\ \A j \in 1..Len(path) : FindEdge(es, path[j]) # 0 /\ ~es[FindEdge(es, path[j])].isClosed
  /\ IF path = <<>> THEN from = to
     ELSE /\ es[FindEdge(es, path[1])].sourceId = from
          /\ es[FindEdge(es, path[Len(path)])].targetId = to
          /\ \A j \in 1..(Len(path) - 1) :
               es[FindEdge(es, path[j])].targetId = es[FindEdge(es, path[j + 1])].sourceId

\* the truck moves on the head of a plan whose only other edge is closed
OnlyRemainingEdgeClosed(t) ==
  /\ t.state = "moving"
  /\ Len(t.routePlan) = 2
  /\ t.routePlan[1] = t.currentEdgeId
  /\ FindEdge(edges, t.currentEdgeId) # 0
  /\ FindEdge(edges, t.routePlan[2]) # 0
  /\ edges[FindEdge(edges, t.routePlan[2])].isClosed

\* what the re-plan tick leaves of the plan of old: an open route behind the
\* current edge if one exists, the old plan otherwise
Replanned(old, new) ==
  LET from == edges[FindEdge(edges, old.currentEdgeId)].targetId
  IN IF Reachable(from, old.destinationNodeId, nodes, edges')
     THEN /\ new.routePlan # <<>>
          /\ new.routePlan[1] = old.currentEdgeId
          /\ IsOpenRoute(Tail(new.routePlan), from, old.destinationNodeId, edges')
     ELSE new.routePlan = old.routePlan

\* the step is a tick whose re-plan phase runs
ReplanTick == time' # time /\ RerouteDue(time')

SpawnMustFail(startNodeId, endNodeId) ==
  \/ startNodeId \notin DOMAIN nodes
  \/ endNodeId \notin DOMAIN nodes
  \/ ~Reachable(startNodeId, endNodeId, nodes, edges)

\* C11: a spawnTruck call with an unknown start node, an unknown destination
\* node or no path between them leaves the engine as it was: the trucks, every
\* edge's load and weight, the truck id counter and the statistics.
C11_FailedSpawnChangesNothing ==
  [][(call'.op = "spawnTruck" /\ SpawnMustFail(call'.arg[1], call'.arg[2]))
       => UNCHANGED engineVars]_vars

\* a spawn towards an unreachable destination has just failed while a truck
\* is under way on a loaded edge
C11_Witness ==
  /\ call.op = "spawnTruck"
  /\ call.arg = <<"n4", "n1">>
  /\ ~call.ok
  /\ Len(trucks) = 1
  /\ time > 0
  /\ \E k \in 1..Len(edges) : edges[k].currentLoad > 0

\* C12: the value spawnTruck returns tells a spawn that created a truck from
\* one that failed: two consecutive calls with different outcomes return
\* different values.
C12_ReturnTellsFailure ==
  [][(call.op = "spawnTruck" /\ call'.op = "spawnTruck" /\ call.ok # call'.ok)
       => call.ret # call'.ret]_vars

\* every edge carries no load and weighs its free-flow time
EdgesAtRest(es) ==
  \A k \in 1..Len(es) :
    es[k].currentLoad = 0 /\ es[k].currentWeight = es[k].baseTravelTime * WScale

\* C13: right after loadMap, whatever the engine held before and whatever
\* load or weight the edge records handed in carry, there is no truck, the
\* time and all counters are zero, and every edge has load 0 and its free-flow
\* time as weight.
C13_LoadMapResets ==
  call.op = "loadMap" =>
    /\ trucks = <<>>
    /\ time = 0
    /\ completedTrips = 0
    /\ totalTripTime = 0
    /\ totalTripDistance = 0
    /\ nextTruckId = 1
    /\ EdgesAtRest(edges)

\* the fields of an edge that clearSimulation must keep
EdgeStructure(e) ==
  [id |-> e.id, sourceId |-> e.sourceId, targetId |-> e.targetId, length |-> e.length,
   capacity |-> e.capacity, isClosed |-> e.isClosed]

\* C14: clearSimulation keeps the nodes, the beacons with their mappings and
\* the identity, end nodes, length, capacity and closed flag of every edge;
\* after it there is no truck, time and all counters are zero, the truck id
\* counter is 1, and every edge has load 0 and its free-flow time as weight.
C14_ClearKeepsMap ==
  [][call'.op = "clearSimulation" =>
       /\ nodes' = nodes
       /\ routers' = routers
       /\ Len(edges') = Len(edges)
       /\ \A k \in 1..Len(edges) : EdgeStructure(edges'[k]) = EdgeStructure(edges[k])
       /\ trucks' = <<>>
       /\ time' = 0
       /\ completedTrips' = 0
       /\ totalTripTime' = 0
       /\ totalTripDistance' = 0
       /\ baseTripTimeAccumulator' = 0
       /\ nextTruckId' = 1
       /\ EdgesAtRest(edges')]_vars

\* clearSimulation has just run on a map with a closed edge, and trucks had
\* been spawned before: the closed flag is still there and the loads are gone
C14_Witness ==
  /\ call.op = "clearSimulation"
  /\ \E k \in 1..Len(edges) : edges[k].isClosed
  /\ trucks = <<>>
  /\ EdgesAtRest(edges)

\* C15: after any sequence of addNode, addEdge, addRouter, removeNode,
\* removeEdge and removeRouter on a consistent map, both end nodes of every
\* edge exist and every edge id a beacon maps names an existing edge.
C15_NoDanglingReferences ==
  /\ \A k \in 1..Len(edges) :
       edges[k].sourceId \in DOMAIN nodes /\ edges[k].targetId \in DOMAIN nodes
  /\ \A i \in 1..Len(routers) :
       \A j \in 1..Len(routers[i].mappedEdgeIds) :
         FindEdge(edges, routers[i].mappedEdgeIds[j]) # 0

\* the identifier handed to a remove operation names nothing in the engine
RemovesUnknown(c) ==
  \/ c.op = "removeNode" /\ c.arg[1] \notin DOMAIN nodes
  \/ c.op = "removeEdge" /\ FindEdge(edges, c.arg[1]) = 0
  \/ c.op = "removeRouter" /\ \A i \in 1..Len(routers) : routers[i].id # c.arg[1]

\* C16: removeNode, removeEdge and removeRouter called with an identifier
\* that does not exist leave the whole engine state as it was.
C16_RemoveUnknownIsNoOp ==
  [][RemovesUnknown(call') => UNCHANGED engineVars]_vars

\* C17: every edge the engine holds has capacity at least 1, so the
\* congestion formula is never evaluated with capacity 0.
C17_CapacityAtLeastOne ==
  \A k \in 1..Len(edges) : edges[k].capacity >= 1

\* C19: for a fixed capacity C >= 1, free-flow time T0 >= 0, alpha >= 0 and
\* beta >= 0, the weight tick computes is non-decreasing in the load and never
\* below T0: of two edges with the same C and T0, the one with the smaller or
\* equal load has the smaller or equal weight.
C19_WeightMonotone ==
  time > 0 =>
    \A i \in 1..Len(edges) :
      /\ edges[i].currentWeight >= edges[i].baseTravelTime * WScale
      /\ \A j \in 1..Len(edges) :
           (/\ edges[i].capacity = edges[j].capacity
            /\ edges[i].baseTravelTime = edges[j].baseTravelTime
            /\ edges[i].currentLoad <= edges[j].currentLoad)
             => edges[i].currentWeight <= edges[j].currentWeight

\* tick has computed a strictly larger weight for the edge with the larger load
C19_Witness ==
  /\ time > 0
  /\ Len(edges) = 2
  /\ edges[1].capacity = edges[2].capacity
  /\ edges[1].baseTravelTime = edges[2].baseTravelTime
  /\ edges[1].currentLoad < edges[2].currentLoad
  /\ edges[1].currentWeight < edges[2].currentWeight
  /\ edges[1].currentWeight > edges[1].baseTravelTime * WScale

\* C20: the activeTrucks of getStats is the number of trucks in motion, that
\* is, of trucks in state moving.
C20_ActiveTrucksAreMoving ==
  getStats.activeTrucks = Cardinality({i \in 1..Len(trucks) : trucks[i].state = "moving"})

\* a truck that cannot go on as planned: it waits or is idle, an edge of its
\* plan or its current edge is closed or removed, or its destination cannot
\* be reached from the end of its current edge
Failing(t) ==
  \/ t.state # "moving"
  \/ FindEdge(edges, t.currentEdgeId) = 0
  \/ \E j \in 1..Len(t.routePlan) :
       LET k == FindEdge(edges, t.routePlan[j]) IN k = 0 \/ edges[k].isClosed
  \/ ~Reachable(edges[FindEdge(edges, t.currentEdgeId)].targetId, t.destinationNodeId,
                nodes, edges)

\* what motion and re-planning write of a truck
MotionAndPlan(t) ==
  [id |-> t.id, state |-> t.state, currentEdgeId |-> t.currentEdgeId,
   distanceAlongEdge |-> t.distanceAlongEdge, position |-> t.position,
   totalDistance |-> t.totalDistance, totalTime |-> t.totalTime,
   routePlan |-> t.routePlan, rerouteCount |-> t.rerouteCount]

Others(ts, id) ==
  LET rest == SelectSeq(ts, LAMBDA t : t.id # id)
  IN [i \in 1..Len(rest) |-> MotionAndPlan(rest[i])]

\* the engine without truck a: a is not in the list and not in the load of
\* the edge it occupies
MotionStateWithout(a) ==
  LET ce == FindEdge(edges, a.currentEdgeId)
  IN [MotionState EXCEPT
        !.trucks = SelectSeq(trucks, LAMBDA t : t.id # a.id),
        !.edges = IF a.state = "moving" /\ ce # 0
                  THEN [edges EXCEPT ![ce].currentLoad = Max(0, @ - 1)] ELSE edges]

\* the trucks after a tick of the engine without truck a
TickWithout(a) ==
  LET ms == MoveTrucks(MotionStateWithout(a))
  IN Reroute(PruneFinished(ms.trucks), UpdateWeights(ms.edges), time + config.dt)

\* the trucks after a tick without truck a in the list, re-planned on the
\* weights of the tick that was taken
TickWithoutOnWeights(a, es) ==
  Reroute(PruneFinished(MoveTrucks(MotionStateWithout(a)).trucks), es, time + config.dt)

WeightOfLoad(e) ==
  e.baseTravelTime * WScale
    + (e.baseTravelTime * config.alpha * Pow(e.currentLoad, config.beta) * WScale)
        \div Pow(e.capacity, config.beta)

\* the truck of the list with that id
TruckOf(ts, id) == ts[CHOOSE i \in 1..Len(ts) : ts[i].id = id]

\* C21: when a tick returns, the weight of every edge, closed or open, is
\* T0*(1+alpha*(n/C)^beta) for the load n the motion phase of this tick left,
\* and a plan the re-plan phase of this tick wrote is the planner's path on
\* those weights.
C21_WeightsFromPostMoveLoads ==
  [][time' # time =>
       /\ \A k \in 1..Len(edges') : edges'[k].currentWeight = WeightOfLoad(edges'[k])
       /\ \A i \in 1..Len(trucks') :
            LET t == trucks'[i]
                old == TruckOf(trucks, t.id)
            IN t.rerouteCount # old.rerouteCount =>
                 LET ce == edges'[FindEdge(edges', t.currentEdgeId)]
                     r == findPath(ce.targetId, t.destinationNodeId, nodes, edges')
                 IN r.found /\ t.routePlan = <<t.currentEdgeId>> \o r.path]_vars

\* a re-plan tick has passed that left a truck on an edge heavier than its
\* free-flow time while another edge is closed
C21_Witness ==
  /\ time > 0
  /\ RerouteDue(time)
  /\ \E k \in 1..Len(edges) : edges[k].isClosed
  /\ \E i \in 1..Len(trucks) :
       /\ trucks[i].rerouteCount > 0
       /\ trucks[i].state = "moving"
       /\ LET ce == edges[FindEdge(edges, trucks[i].currentEdgeId)]
          IN ce.currentLoad > 0 /\ ce.currentWeight = WeightOfLoad(ce)
                                /\ ce.currentWeight > ce.baseTravelTime * WScale

\* the truck is moving on an existing edge and reaches its end in the next tick
CompletesEdge(t) ==
  /\ t.state = "moving"
  /\ FindEdge(edges, t.currentEdgeId) # 0
  /\ t.distanceAlongEdge + t.speed * config.dt
       >= edges[FindEdge(edges, t.currentEdgeId)].length

\* the plan after the completed edge has been taken from its head
RestOfPlan(t) ==
  IF t.routePlan # <<>> /\ t.routePlan[1] = t.currentEdgeId THEN Tail(t.routePlan)
  ELSE t.routePlan

\* the head of the rest of the plan exists and is open, or the policy is queue
HeadAdmits(t) ==
  LET k == FindEdge(edges, RestOfPlan(t)[1])
  IN k # 0 /\ (~edges[k].isClosed \/ config.policy = "queue")

\* trucks that leave edge id in the next tick, and trucks that enter it
Leavers(id) ==
  {i \in 1..Len(trucks) : CompletesEdge(trucks[i]) /\ trucks[i].currentEdgeId = id}

Enterers(id) ==
  {i \in 1..Len(trucks) :
     /\ CompletesEdge(trucks[i])
     /\ RestOfPlan(trucks[i]) # <<>>
     /\ RestOfPlan(trucks[i])[1] = id
     /\ HeadAdmits(trucks[i])}

C23_NeverOverCapacity ==
  config.policy = "closed_when_full" =>
    \A k \in 1..Len(edges) : edges[k].currentLoad <= edges[k].capacity

\* truck id is in the list and in that state
InState(id, st) == \E i \in 1..Len(trucks) : trucks[i].id = id /\ trucks[i].state = st

\* the waiting truck id can go on: the head of its plan exists and is open, or
\* an open route leads from the node it waits at to its destination
CanBeFreed(id) ==
  \E i \in 1..Len(trucks) :
    /\ trucks[i].id = id
    /\ trucks[i].state = "waiting"
    /\ \/ /\ trucks[i].routePlan # <<>>
          /\ LET k == FindEdge(edges, trucks[i].routePlan[1])
             IN k # 0 /\ ~edges[k].isClosed
       \/ LET ce == FindEdge(edges, trucks[i].currentEdgeId)
          IN ce # 0 /\ Reachable(edges[ce].targetId, trucks[i].destinationNodeId,
                                 nodes, edges)

\* a tick in which the re-plan phase runs is still to come
BoundaryAhead == \E n \in (time + 1)..MaxFailTime : RerouteDue(n)

\* C24: a waiting truck whose blocked edge is open again, or for which an open
\* route to its destination exists, returns to state moving (unless it is
\* blocked again first), given that ticks with a re-plan phase follow.
C24_WaitingIsFreed ==
  \A id \in 1..MaxFailTrucks :
    [](CanBeFreed(id) /\ BoundaryAhead
         => <>(InState(id, "moving") \/ (InState(id, "waiting") /\ ~CanBeFreed(id))))

\* the multiples of the re-plan interval that lie at or before the time now
MultiplesUpTo(now) == now \div config.rerouteInterval

AfterMotion == PruneFinished(MoveTrucks(MotionState).trucks)

\* the planner's answer for truck t from the target node of its current edge,
\* on the weights this tick computed; NoPath if it has no such edge
PlannerAnswer(t) ==
  LET ce == FindEdge(edges', t.currentEdgeId)
  IN IF t.destinationNodeId = NULL \/ ce = 0 THEN NoPath
     ELSE findPath(edges'[ce].targetId, t.destinationNodeId, nodes, edges')

\* C26: in a tick whose re-plan phase runs, every moving truck for which the
\* planner finds a path gets the plan <<current edge>> \o path and its
\* rerouteCount grows by exactly 1, whether or not the plan changes; a truck
\* that is not moving keeps its plan and its rerouteCount.
C26_ReplanOnSuccess ==
  [][ReplanTick =>
       /\ Len(trucks') = Len(AfterMotion)
       /\ \A i \in 1..Len(AfterMotion) :
            LET old == AfterMotion[i]
                new == trucks'[i]
            IN /\ new.id = old.id
               /\ (old.state = "moving" /\ PlannerAnswer(old).found)
                    => /\ new.routePlan = <<old.currentEdgeId>> \o PlannerAnswer(old).path
                       /\ new.rerouteCount = old.rerouteCount + 1
               /\ old.state # "moving"
                    => /\ new.routePlan = old.routePlan
                       /\ new.rerouteCount = old.rerouteCount]_vars

\* the only truck ever spawned was planned over fa and r1, is still on fa at the
\* first re-plan boundary and was re-planned there to the same plan
C26_Witness ==
  /\ time = 3
  /\ nextTruckId = 2
  /\ Len(trucks) = 1
  /\ trucks[1].currentEdgeId = "fa"
  /\ trucks[1].state = "moving"
  /\ trucks[1].routePlan = <<"fa", "r1">>
  /\ trucks[1].rerouteCount = 1

\* C27: in a tick whose re-plan phase runs, a moving truck for which the planner
\* finds no path keeps plan, rerouteCount, current edge and state as the motion
\* phase left them, and every other moving truck for which a path is found is
\* re-planned all the same.
C27_ReplanOnNoPath ==
  [][ReplanTick =>
       \A i \in 1..Len(AfterMotion) :
         LET old == AfterMotion[i]
         IN (old.state = "moving" /\ ~PlannerAnswer(old).found)
              => /\ trucks'[i].id = old.id
                 /\ trucks'[i].routePlan = old.routePlan
                 /\ trucks'[i].rerouteCount = old.rerouteCount
                 /\ trucks'[i].currentEdgeId = old.currentEdgeId
                 /\ trucks'[i].state = old.state
                 /\ \A j \in 1..Len(AfterMotion) :
                      (AfterMotion[j].state = "moving" /\ PlannerAnswer(AfterMotion[j]).found)
                        => /\ trucks'[j].routePlan
                                = <<AfterMotion[j].currentEdgeId>> \o PlannerAnswer(AfterMotion[j]).path
                           /\ trucks'[j].rerouteCount = AfterMotion[j].rerouteCount + 1]_vars

\* at a re-plan boundary the first truck, moving on r1 towards f3, found no path
\* (its plan still ends with fg, which is closed or gone) and was not counted,
\* while the truck behind it was re-planned
C27_Witness ==
  /\ time > 0 /\ RerouteDue(time)
  /\ Len(trucks) = 2
  /\ trucks[1].state = "moving"
  /\ trucks[1].currentEdgeId = "r1"
  /\ trucks[1].destinationNodeId = "f3"
  /\ trucks[1].routePlan = <<"r1", "fg">>
  /\ trucks[1].rerouteCount = 0
  /\ (FindEdge(edges, "fg") = 0 \/ edges[FindEdge(edges, "fg")].isClosed)
  /\ trucks[2].state = "moving"
  /\ trucks[2].rerouteCount = 1

\* the ids of the trucks the motion phase of this tick brings to state finished
FinishedInMotion ==
  LET moved == MoveTrucks(MotionState).trucks
  IN {moved[i].id : i \in {j \in 1..Len(moved) : moved[j].state = "finished"}}

\* C28: a tick removes exactly the trucks its motion phase brought to state
\* finished and removes them before localization and re-planning: the trucks
\* that remain are those of AfterMotion, in their order, none of them is
\* finished, a truck that finished is in no later list (nothing of it is written
\* by localization or re-planning), and one trip is counted for each.
C28_PrunedWhenFinished ==
  [][time' # time =>
       /\ \A i \in 1..Len(trucks') : trucks'[i].state # "finished"
       /\ TruckIds(trucks) \ TruckIds(trucks') = FinishedInMotion
       /\ TruckIds(trucks') \cap FinishedInMotion = {}
       /\ [i \in 1..Len(trucks') |-> trucks'[i].id]
            = [i \in 1..Len(AfterMotion) |-> AfterMotion[i].id]
       /\ completedTrips' = completedTrips + Cardinality(FinishedInMotion)]_vars

\* the first truck finished its trip and is gone while the second, spawned
\* later, is still under way
C28_Witness ==
  /\ completedTrips = 1
  /\ nextTruckId = 3
  /\ Len(trucks) = 1
  /\ trucks[1].id = 2
  /\ trucks[1].totalTime > 0

(* ---- hysteresis: the pending candidate and its count ---- *)

\* C29 as stated: in the tick in which the inferred beacon of a truck switches
\* to its reading c, the count of consecutive readings is 0 when the tick
\* returns.
C29_CommitResetsCount ==
  [][time' # time =>
       \A id \in DOMAIN readings' :
         LET old == TruckById(trucks, id)
             new == TruckById(trucks', id)
             c == readings'[id][Len(readings'[id])]
         IN new.inferredRouterId # old.inferredRouterId
              => new.inferredRouterId = c /\ new.consecutiveRouterReads = 0]_vars

\* C29 amended: in that tick the inferred beacon becomes c while the pending
\* candidate stays c and the count stays at the threshold hysteresisN; they are
\* cleared (null, 0) by the next tick whose reading is the inferred beacon.
C29_CommitKeepsCount ==
  [][time' # time =>
       \A id \in DOMAIN readings' :
         LET old == TruckById(trucks, id)
             new == TruckById(trucks', id)
             c == readings'[id][Len(readings'[id])]
         IN /\ new.inferredRouterId # old.inferredRouterId
                 => /\ new.inferredRouterId = c
                    /\ new.potentialRouterId = c
                    /\ new.consecutiveRouterReads = config.hysteresisN
            /\ c = old.inferredRouterId
                 => /\ new.inferredRouterId = c
                    /\ new.potentialRouterId = NULL
                    /\ new.consecutiveRouterReads = 0]_vars

\* the third reading of B in a row switched the truck to B in this tick, and
\* the count still is 3
C29_Witness ==
  /\ config.hysteresisN = 3
  /\ 1 \in DOMAIN readings
  /\ readings[1] = <<"rB", "rB", "rB">>
  /\ TruckById(trucks, 1).inferredRouterId = "rB"
  /\ TruckById(trucks, 1).lastRouterSwitchTime = time
  /\ TruckById(trucks, 1).potentialRouterId = "rB"
  /\ TruckById(trucks, 1).consecutiveRouterReads = 3

\* the tick only makes c the pending candidate, with count 1
OnlySetsPending(old, new, c) ==
  /\ new.potentialRouterId = c
  /\ new.consecutiveRouterReads = 1
  /\ new.inferredRouterId = old.inferredRouterId
  /\ new.inferredEdgeId = old.inferredEdgeId
  /\ new.lastRouterSwitchTime = old.lastRouterSwitchTime

\* C30 as stated: for every threshold, a reading c that differs from the
\* inferred beacon and from the pending candidate only makes c the pending
\* candidate with count 1; inferred beacon, inferred edge and switch time stay.
C30_NewCandidateOnlyPending ==
  [][time' # time =>
       \A id \in DOMAIN readings' :
         LET old == TruckById(trucks, id)
             new == TruckById(trucks', id)
             c == readings'[id][Len(readings'[id])]
         IN (c # old.inferredRouterId /\ c # old.potentialRouterId)
              => OnlySetsPending(old, new, c)]_vars

\* C30 amended: so it is for every threshold of at least 2; with threshold 1
\* the same tick also commits to c.
C30_NewCandidateOnlyPendingFromTwo ==
  [][time' # time =>
       \A id \in DOMAIN readings' :
         LET old == TruckById(trucks, id)
             new == TruckById(trucks', id)
             c == readings'[id][Len(readings'[id])]
         IN (c # old.inferredRouterId /\ c # old.potentialRouterId)
              => IF config.hysteresisN >= 2 THEN OnlySetsPending(old, new, c)
                 ELSE /\ new.potentialRouterId = c
                      /\ new.consecutiveRouterReads = 1
                      /\ new.inferredRouterId = c
                      /\ new.lastRouterSwitchTime = time']_vars

\* with threshold 2 the truck switched to A in the second tick; the reading B
\* of the third tick is pending with count 1 and the truck still is at A
C30_Witness ==
  /\ config.hysteresisN = 2
  /\ 1 \in DOMAIN readings
  /\ readings[1] = <<"rA", "rA", "rB">>
  /\ TruckById(trucks, 1).inferredRouterId = "rA"
  /\ TruckById(trucks, 1).potentialRouterId = "rB"
  /\ TruckById(trucks, 1).consecutiveRouterReads = 1
  /\ TruckById(trucks, 1).lastRouterSwitchTime = time - config.dt

\* whatever the horizon, no operation takes a truck out of state waiting or
\* out of the list of trucks
WaitingIsAbsorbing ==
  [][\A id \in 1..MaxFailTrucks : InState(id, "waiting") => InState(id, "waiting")']_vars

(* ---- plans, loads and progress of the trucks ---- *)

\* C31: every truck in state moving has a non-empty plan whose first edge is
\* the edge it is on.
C31_MovingHeadIsCurrent ==
  \A i \in 1..Len(trucks) :
    trucks[i].state = "moving"
      => /\ trucks[i].routePlan # <<>>
         /\ trucks[i].routePlan[1] = trucks[i].currentEdgeId

\* a truck that was re-planned on its first edge has since entered the last
\* edge of the detour and moves on it
C31_Witness ==
  \E i \in 1..Len(trucks) :
    /\ trucks[i].state = "moving"
    /\ trucks[i].rerouteCount > 0
    /\ trucks[i].currentEdgeId = "e4"
    /\ trucks[i].routePlan = <<"e4">>

\* the sequences that hold each of 1..n once
Orders(n) == {o \in [1..n -> 1..n] : \A i, j \in 1..n : o[i] = o[j] => i = j}

RECURSIVE MoveAlong(_, _, _)
\* the motion phase with the trucks processed in the order o, from its k-th on
MoveAlong(ms, o, k) ==
  IF k > Len(o) THEN ms ELSE MoveAlong(MoveTruck(ms, o[k]), o, k + 1)

\* C32: whatever the order in which the motion phase of the next tick processes
\* the trucks, it leaves the same trucks and the same edge loads as the array
\* order does.
C32_MotionOrderIndependent ==
  \A o \in Orders(Len(trucks)) :
    LET r == MoveAlong(MotionState, o, 1)
    IN r.trucks = MoveTrucks(MotionState).trucks /\ r.edges = MoveTrucks(MotionState).edges

\* number of trucks in state moving whose currentEdgeId is id
MovingOn(ts, id) ==
  Cardinality({i \in 1..Len(ts) : ts[i].state = "moving" /\ ts[i].currentEdgeId = id})

\* C33: with no topology edit, the load of every edge is the number of trucks
\* that are moving on it (a waiting truck is counted on no edge), and no load is
\* negative.
C33_LoadEqualsMoving ==
  \A k \in 1..Len(edges) :
    /\ edges[k].currentLoad = MovingOn(trucks, edges[k].id)
    /\ edges[k].currentLoad >= 0

\* after a clearSimulation a truck waits at the closed exit road with r1 still
\* as its current edge, and r1 carries the load of the truck moving on it only
C33_Witness ==
  /\ call.op = "clearSimulation"
  /\ edges[FindEdge(edges, "fg")].isClosed
  /\ \E i, j \in 1..Len(trucks) :
       /\ trucks[i].state = "waiting" /\ trucks[i].currentEdgeId = "r1"
       /\ trucks[j].state = "moving" /\ trucks[j].currentEdgeId = "r1"
  /\ edges[FindEdge(edges, "r1")].currentLoad = 1

(* ---- progress of the trucks ---- *)

\* ticks a truck of speed 1 needs for the longest route of SpecLive that visits
\* no junction twice: two roads
LiveRouteTicks == 2 * LiveEdges[1].length

\* the truck with that id is in the list of trucks
Active(id) == \E i \in 1..Len(trucks) : trucks[i].id = id

\* the truck with that id has just been spawned
JustSpawned(id) == \E i \in 1..Len(trucks) : trucks[i].id = id /\ trucks[i].totalTime = 0

SentRoundTheLoop ==
  \E i \in 1..Len(trucks) :
    /\ trucks[i].state = "moving"
    /\ trucks[i].totalDistance > 2 * LiveEdges[1].length
    /\ trucks[i].currentEdgeId \in {"ab", "ba"}

\* the truck is moving and the edge it is on is in the map no more
LostItsEdge(t) == t.state = "moving" /\ FindEdge(edges, t.currentEdgeId) = 0

\* the loads the motion phase leaves when truck a is taken out of the list
LoadsWithout(a) ==
  LET ms == MoveTrucks([MotionState EXCEPT
                          !.trucks = SelectSeq(trucks, LAMBDA t : t.id # a.id)])
  IN [k \in 1..Len(ms.edges) |-> ms.edges[k].currentLoad]

\* C35: the tick after its current edge was removed makes a moving truck idle,
\* neither moves it nor changes a load for it, and does not re-plan it; an idle
\* truck stays in the list, idle, with its plan and its rerouteCount, through
\* every spawnTruck, tick, closure and removal.
C35_LostEdgeMakesIdle ==
  [][\A i \in 1..Len(trucks) :
       LET old == trucks[i]
       IN /\ (time' # time /\ LostItsEdge(old))
               => /\ old.id \in TruckIds(trucks')
                  /\ MotionAndPlan(TruckById(trucks', old.id))
                       = [MotionAndPlan(old) EXCEPT !.state = "idle"]
                  /\ [k \in 1..Len(edges') |-> edges'[k].currentLoad] = LoadsWithout(old)
          /\ old.state = "idle"
               => /\ old.id \in TruckIds(trucks')
                  /\ MotionAndPlan(TruckById(trucks', old.id)) = MotionAndPlan(old)]_vars

\* the first truck lost its edge before its first tick and has been idle since,
\* through the re-plan phase of the third tick, while the truck spawned after
\* it has moved for three ticks
C35_Witness ==
  /\ time = 4
  /\ Len(trucks) = 2
  /\ trucks[1].id = 1 /\ trucks[1].state = "idle" /\ trucks[1].totalTime = 0
  /\ trucks[1].rerouteCount = 0
  /\ trucks[2].state = "moving" /\ trucks[2].totalTime >= 3

(* ---- shape of the planner's paths ---- *)

\* the edge of es that the id names
EdgeOf(es, id) == es[FindEdge(es, id)]

\* the nodes a walk over the edges of path visits, the start node first
NodesVisited(path, start, es) ==
  [j \in 1..(Len(path) + 1) |-> IF j = 1 THEN start ELSE EdgeOf(es, path[j - 1]).targetId]

\* C36: a path findPath returns is a chain of edges of the map from the start
\* node to the goal: each edge leaves the node the walk has reached, the last
\* one arrives at the goal, no node is visited twice, and the path is empty
\* exactly when the start is the goal.
C36_PathIsSimpleChain ==
  (answer.called /\ answer.result.found) =>
    LET path == answer.result.path
        visited == NodesVisited(path, answer.start, edges)
    IN /\ \A j \in 1..Len(path) :
            /\ FindEdge(edges, path[j]) # 0
            /\ EdgeOf(edges, path[j]).sourceId = visited[j]
       /\ visited[Len(path) + 1] = answer.goal
       /\ \A i, j \in 1..(Len(path) + 1) : visited[i] = visited[j] => i = j
       /\ (path = <<>>) <=> (answer.start = answer.goal)

\* from A the only way to B is over G and back to S: a path of three edges
C36_Witness ==
  /\ answer.called /\ answer.result.found
  /\ answer.start = "A" /\ answer.goal = "B"
  /\ answer.result.path = <<"ag", "gs", "sb">>

(* ---- hysteresis: consistency of the fields ---- *)

\* the count lies in 0..hysteresisN and is 0 exactly when no candidate is pending
CountInRange(t) ==
  /\ t.consecutiveRouterReads \in 0..config.hysteresisN
  /\ (t.consecutiveRouterReads = 0) <=> (t.potentialRouterId = NULL)

\* C37 as stated: the count of every truck lies in 0..hysteresisN and is 0
\* exactly when the pending candidate is null, and no tick increases the count
\* of a truck whose pending candidate equals its inferred beacon.
C37_FieldsConsistent ==
  [][/\ \A i \in 1..Len(trucks') : CountInRange(trucks'[i])
     /\ time' # time =>
          \A id \in TruckIds(trucks) \cap TruckIds(trucks') :
            LET old == TruckById(trucks, id)
                new == TruckById(trucks', id)
            IN old.potentialRouterId = old.inferredRouterId
                 => new.consecutiveRouterReads <= old.consecutiveRouterReads]_vars

\* C37 amended: the same, the last part for a truck that has a pending
\* candidate (after a commit, until the next reading); a truck that has neither
\* an inferred beacon nor a pending candidate, as after its spawn, starts to
\* count with its first reading.
C37_FieldsConsistentOncePending ==
  [][/\ \A i \in 1..Len(trucks') : CountInRange(trucks'[i])
     /\ time' # time =>
          \A id \in TruckIds(trucks) \cap TruckIds(trucks') :
            LET old == TruckById(trucks, id)
                new == TruckById(trucks', id)
            IN /\ (old.potentialRouterId # NULL
                     /\ old.potentialRouterId = old.inferredRouterId)
                    => new.consecutiveRouterReads <= old.consecutiveRouterReads
               /\ (old.potentialRouterId = NULL /\ old.inferredRouterId = NULL)
                    => new.consecutiveRouterReads = 1]_vars

\* with threshold 3 the truck committed to A in the third tick, the count
\* staying 3; the reading B of the fourth tick made B pending with count 1
C37_Witness ==
  /\ config.hysteresisN = 3
  /\ 1 \in DOMAIN readings
  /\ readings[1] = <<"rA", "rA", "rA", "rB">>
  /\ TruckById(trucks, 1).inferredRouterId = "rA"
  /\ TruckById(trucks, 1).potentialRouterId = "rB"
  /\ TruckById(trucks, 1).consecutiveRouterReads = 1

(* ---- conservation of the trucks ---- *)

\* C38: the trucks spawned since the last loadMap or clearSimulation
\* (nextTruckId - 1) are those in the list and those that completed their trip,
\* and no two trucks in the list have the same id.
C38_TrucksConserved ==
  /\ nextTruckId - 1 = Len(trucks) + completedTrips
  /\ \A i, j \in 1..Len(trucks) : trucks[i].id = trucks[j].id => i = j

\* of the two trucks spawned since a clearSimulation the first has completed its
\* trip and the second is under way
C38_Witness ==
  /\ call.op = "clearSimulation"
  /\ nextTruckId = 3
  /\ completedTrips = 1
  /\ Len(trucks) = 1
  /\ trucks[1].id = 2

(* ---- progress along the current edge ---- *)

\* C39: when a tick returns, the progress d of every moving truck satisfies
\* 0 <= d < length of its current edge; a truck either stays on its edge, its
\* progress grown by speed * dt, or is on the next edge of its plan with
\* progress 0, however far beyond the end of the edge the move went.
C39_ProgressWithinEdge ==
  [][time' # time =>
       \A i \in 1..Len(trucks') :
         LET new == trucks'[i]
             old == TruckById(trucks, new.id)
             k == FindEdge(edges', new.currentEdgeId)
         IN new.state = "moving" =>
              /\ k # 0
              /\ 0 <= new.distanceAlongEdge
              /\ new.distanceAlongEdge < edges'[k].length
              /\ IF new.currentEdgeId = old.currentEdgeId
                 THEN new.distanceAlongEdge = old.distanceAlongEdge + old.speed * config.dt
                 ELSE /\ new.distanceAlongEdge = 0
                      /\ Len(old.routePlan) >= 2
                      /\ new.currentEdgeId = old.routePlan[2]
              /\ new.totalDistance = old.totalDistance + old.speed * config.dt]_vars

\* the first edge is 30 long: the truck completed it in its second tick with
\* distance 40 and is on the second edge with progress 0
C39_Witness ==
  /\ edges[1].length = 30
  /\ Len(trucks) = 1
  /\ trucks[1].state = "moving"
  /\ trucks[1].currentEdgeId = "tb"
  /\ trucks[1].distanceAlongEdge = 0
  /\ trucks[1].totalDistance = 40

====
